---- MODULE Spec2Model ----
(***************************************************************************)
(* Indoor navigation core: graph construction, A* search, route assembly,  *)
(* route validation, instruction generation and hazard annotation.         *)
(*                                                                         *)
(* Distances are whole meters.  Search costs (gScore, fScore) are kept in  *)
(* fifths of a meter so that the 0.8 elevator factor is exact.             *)
(* Node coordinates are chosen so that every Euclidean heuristic value is  *)
(* a whole number of meters.                                               *)
(***************************************************************************)
EXTENDS Integers, Sequences, FiniteSets, TLC

VARIABLES
    edges,          \* map.edges, in array order
    alerts,         \* map.alerts, in array order
    pc,             \* "idle" | "searching" | "returned" | "nearest" | "alternatives"
    startNodeId,    \* arguments of the findPath call in progress
    endNodeId,
    preferences,
    openSet,        \* Map<string, AStarNode> in insertion order
    closedSet,
    cameFrom,       \* set of <<node, predecessor>> pairs (a Map)
    gScores,        \* set of <<node, g>> pairs (a Map)
    route,          \* <<>> for null, <<r>> for a Route r
    valid,          \* <<>> before validateRoute ran, <<b>> after
    instructions,   \* the list generateInstructions returned to the caller
    annotated,      \* the list addHazardWarnings returned
    targetType,     \* argument of the findRouteToNearest call
    nearest,        \* what findRouteToNearest returned: <<>> or <<r>>
    count,          \* argument of the findAlternativeRoutes call
    alternatives,   \* the list findAlternativeRoutes returned
    earlier,        \* a findPath call has already returned on this snapshot
    given,          \* the list handed to simplifyInstructions
    simplified,     \* what simplifyInstructions returned for it
    resimplified,   \* what simplifyInstructions returned for that result
    readyState,     \* wsRef.current: "none" | "connecting" | "open" | "closed"
    isStreaming,
    isConnected,
    awaitingResponse,   \* awaitingResponseRef.current
    encoding,       \* canvas.toBlob callbacks not yet run
    reading,        \* reader.onload callbacks not yet run
    unanswered,     \* frames at the server it has not responded to
    incoming,       \* server messages not yet handled by ws.onmessage
    walked,         \* a Route handed to generateInstructions on its own
    directions,     \* what generateInstructions returned for it
    corner,         \* the arguments of a calculateTurn call
    turned,         \* what calculateTurn returned for them
    phase,          \* where each speak() call of useSpeaker stands
    isSpeakingRef,  \* isSpeakingRef.current
    audioRef,       \* audioRef.current: 0 for null, else the call whose Audio it is
    blobUrlRef,     \* blobUrlRef.current, likewise
    playing,        \* the Audio elements that are playing
    synth,          \* utterances queued in speechSynthesis
    superseded,     \* calls followed by a later speak() or stopAll()
    speechQueue,    \* SpeechQueue.queue
    currentItem,    \* SpeechQueue.currentItem: 0 for null, else the item's id
    isProcessing,   \* SpeechQueue.isProcessing
    loops,          \* the processQueue invocations inside their while loop
    player,         \* the AudioPlayer's fields and the sources it started
    added,          \* number of add() calls made
    removed,        \* items dropped by clear() or by an interrupting add()
    awaited         \* the interrupting item not yet spoken, 0 when none

vars == <<edges, alerts, pc, startNodeId, endNodeId, preferences, openSet,
          closedSet, cameFrom, gScores, route, valid, instructions, annotated,
          targetType, nearest, count, alternatives, earlier,
          given, simplified, resimplified,
          readyState, isStreaming, isConnected, awaitingResponse,
          encoding, reading, unanswered, incoming,
          walked, directions, corner, turned,
          phase, isSpeakingRef, audioRef, blobUrlRef, playing, synth, superseded,
          speechQueue, currentItem, isProcessing, loops, player, added, removed,
          awaited>>

routingVars == <<edges, alerts, pc, startNodeId, endNodeId, preferences, openSet,
                 closedSet, cameFrom, gScores, route, valid, instructions, annotated,
                 targetType, nearest, count, alternatives, earlier>>
simplifyVars == <<given, simplified, resimplified>>
cameraVars == <<readyState, isStreaming, isConnected, awaitingResponse,
                encoding, reading, unanswered, incoming>>
walkVars == <<walked, directions>>
turnVars == <<corner, turned>>
speakerVars == <<phase, isSpeakingRef, audioRef, blobUrlRef, playing, synth, superseded>>
queueVars == <<speechQueue, currentItem, isProcessing, loops, player, added, removed,
               awaited>>
speechVars == <<speakerVars, queueVars>>
laterVars == <<walkVars, turnVars, speechVars>>
outside == <<earlier, simplifyVars, cameraVars, laterVars>>

-----------------------------------------------------------------------------
(* Bounds of the explored input space *)

MaxEdges == 3       \* edges per map
MaxAlerts == 1      \* alerts per map
MaxCount == 4       \* largest count passed to findAlternativeRoutes
MaxInstructions == 3    \* length of a list handed to simplifyInstructions
MaxSessionEdges == 1    \* edges per map when findPath is called twice
MaxSearchEdges == 4     \* edges per map when only the search is stepped
MaxPending == 4         \* frames being encoded, read, or on the wire at once
MaxWalk == 4            \* path nodes of a Route handed to generateInstructions
MaxUtterances == 3      \* speak() calls made on one useSpeaker
MaxItems == 3           \* add() calls made on one SpeechQueue

(* Program constants *)

CostUnit == 5               \* cost units per meter; elevator factor 0.8 = 4/5
ElevatorFactor == 4
FloorHeight == 4
TURN_THRESHOLD == 30
SLIGHT_TURN_THRESHOLD == 60
AROUND_THRESHOLD == 150

Null == <<>>
Some(v) == <<v>>

-----------------------------------------------------------------------------
(* The Map Model's nodes: a fixed floor fragment.  a-b-c lie on one        *)
(* corridor running north, d is east of b.                                 *)

MapNodes ==
    << [id |-> "a", type |-> "room",    x |-> 0, y |-> 0, floor |-> 0, roomNumber |-> "0802"],
       [id |-> "b", type |-> "hallway", x |-> 0, y |-> 3, floor |-> 0, roomNumber |-> ""],
       [id |-> "c", type |-> "door",    x |-> 0, y |-> 6, floor |-> 0, roomNumber |-> "0815"],
       [id |-> "d", type |-> "room",    x |-> 4, y |-> 3, floor |-> 0, roomNumber |-> ""] >>

NodeIds == { MapNodes[i].id : i \in 1..Len(MapNodes) }

(* nodeMap.get(id): the last node of map.nodes carrying the id *)
HasNodeIn(nodes, id) == \E i \in 1..Len(nodes) : nodes[i].id = id
NodeIn(nodes, id) ==
    LET i == CHOOSE i \in 1..Len(nodes) :
                 /\ nodes[i].id = id
                 /\ \A j \in (i+1)..Len(nodes) : nodes[j].id # id
    IN  nodes[i]

HasNode(id) == HasNodeIn(MapNodes, id)
NodeOf(id) == NodeIn(MapNodes, id)

(* Edges a map may contain; a map holds a subsequence of this list. *)
EdgeCatalog ==
    << [id |-> "e-ac",  from |-> "a", to |-> "c", distance |-> 6, type |-> "hallway",
        accessible |-> TRUE, bidirectional |-> TRUE, temporaryClosure |-> FALSE],
       [id |-> "e-ab",  from |-> "a", to |-> "b", distance |-> 3, type |-> "hallway",
        accessible |-> TRUE, bidirectional |-> TRUE, temporaryClosure |-> FALSE],
       [id |-> "e-bc",  from |-> "b", to |-> "c", distance |-> 3, type |-> "hallway",
        accessible |-> TRUE, bidirectional |-> TRUE, temporaryClosure |-> FALSE],
       [id |-> "e-bc-lift", from |-> "b", to |-> "c", distance |-> 3, type |-> "elevator",
        accessible |-> TRUE, bidirectional |-> TRUE, temporaryClosure |-> FALSE],
       [id |-> "e-bc-stairs", from |-> "b", to |-> "c", distance |-> 2, type |-> "stairs",
        accessible |-> TRUE, bidirectional |-> TRUE, temporaryClosure |-> FALSE],
       [id |-> "e-ab-closed", from |-> "a", to |-> "b", distance |-> 0, type |-> "hallway",
        accessible |-> TRUE, bidirectional |-> TRUE, temporaryClosure |-> TRUE],
       [id |-> "e-bd",  from |-> "b", to |-> "d", distance |-> 4, type |-> "hallway",
        accessible |-> FALSE, bidirectional |-> TRUE, temporaryClosure |-> FALSE],
       [id |-> "e-cd",  from |-> "c", to |-> "d", distance |-> 6, type |-> "hallway",
        accessible |-> TRUE, bidirectional |-> FALSE, temporaryClosure |-> FALSE] >>

AlertCatalog ==
    << [id |-> "alert-b", affectedNodes |-> <<"b">>, affectedEdges |-> <<>>,
        severity |-> "critical"],
       [id |-> "alert-cd", affectedNodes |-> <<"c", "d">>, affectedEdges |-> <<>>,
        severity |-> "low"],
       [id |-> "alert-ab", affectedNodes |-> <<>>, affectedEdges |-> <<"e-ab">>,
        severity |-> "high"],
       [id |-> "alert-bc", affectedNodes |-> <<>>, affectedEdges |-> <<"e-bc-lift">>,
        severity |-> "medium"] >>

(* The subsequence of cat selected by the index set S, in catalog order *)
RECURSIVE Pick(_, _, _)
Pick(cat, S, i) ==
    IF i > Len(cat) THEN <<>>
    ELSE (IF i \in S THEN <<cat[i]>> ELSE <<>>) \o Pick(cat, S, i + 1)

EdgeLists ==
    { Pick(EdgeCatalog, S, 1) :
        S \in { T \in SUBSET (1..Len(EdgeCatalog)) : Cardinality(T) <= MaxEdges } }

AlertLists ==
    { Pick(AlertCatalog, S, 1) :
        S \in { T \in SUBSET (1..Len(AlertCatalog)) : Cardinality(T) <= MaxAlerts } }

PreferenceSets ==
    [avoidStairs : BOOLEAN, preferElevators : BOOLEAN]

QueryIds == NodeIds \cup {"nowhere"}

SeqToSet(s) == { s[i] : i \in 1..Len(s) }

-----------------------------------------------------------------------------
(* buildGraph *)

ClosedEdgeIds(als) ==
    UNION { SeqToSet(als[i].affectedEdges) : i \in 1..Len(als) }

IsClosed(edge, als) ==
    \/ edge.id \in ClosedEdgeIds(als)
    \/ edge.temporaryClosure = TRUE
    \/ ~edge.accessible

(* variant: stairs edges are added like any other edge *)
SkipsEdgeNever(edge, prefs) == FALSE

SkipsEdge(edge, prefs) == prefs.avoidStairs /\ edge.type = "stairs"

(* variant: the closed flag of an edge is never raised *)
GraphEdgeOpen(edge, dest, als) ==
    [to |-> dest, distance |-> edge.distance, accessible |-> edge.accessible,
     edgeType |-> edge.type, isClosed |-> FALSE]

GraphEdge(edge, dest, als) ==
    [to |-> dest, distance |-> edge.distance, accessible |-> edge.accessible,
     edgeType |-> edge.type, isClosed |-> IsClosed(edge, als)]

(* variant: closed edges are left out of the graph *)
RECURSIVE AdjacencyOpenOnly(_, _, _, _, _)
AdjacencyOpenOnly(n, es, als, prefs, i) ==
    IF i > Len(es) THEN <<>>
    ELSE
        LET edge == es[i]
            fwd == IF edge.from = n THEN <<GraphEdge(edge, edge.to, als)>> ELSE <<>>
            rev == IF edge.bidirectional /\ edge.to = n
                   THEN <<GraphEdge(edge, edge.from, als)>> ELSE <<>>
        IN  (IF SkipsEdge(edge, prefs) \/ IsClosed(edge, als) THEN <<>> ELSE fwd \o rev)
            \o AdjacencyOpenOnly(n, es, als, prefs, i + 1)

(* adjacency list of node n after the edges i..Len(es) have been added *)
RECURSIVE Adjacency(_, _, _, _, _)
Adjacency(n, es, als, prefs, i) ==
    IF i > Len(es) THEN <<>>
    ELSE
        LET edge == es[i]
            fwd == IF edge.from = n THEN <<GraphEdge(edge, edge.to, als)>> ELSE <<>>
            rev == IF edge.bidirectional /\ edge.to = n
                   THEN <<GraphEdge(edge, edge.from, als)>> ELSE <<>>
        IN  (IF SkipsEdge(edge, prefs) THEN <<>> ELSE fwd \o rev)
            \o Adjacency(n, es, als, prefs, i + 1)

buildGraph(es, als, prefs) ==
    [n \in NodeIds |-> Adjacency(n, es, als, prefs, 1)]

-----------------------------------------------------------------------------
(* heuristic: Euclidean distance with 4 m per floor, in meters *)

Sqrt(n) == CHOOSE r \in 0..n : r * r = n

heuristic(a, b) ==
    LET dx == b.x - a.x
        dy == b.y - a.y
        dz == (b.floor - a.floor) * FloorHeight
    IN  Sqrt(dx * dx + dy * dy + dz * dz)

-----------------------------------------------------------------------------
(* Map<string, V> helpers over sets of <<key, value>> pairs *)

MapHas(m, k) == \E p \in m : p[1] = k
MapGet(m, k) == (CHOOSE p \in m : p[1] = k)[2]
MapSet(m, k, v) == { p \in m : p[1] # k } \cup { <<k, v>> }

(* openSet: insertion-ordered; set() on a present key keeps its position *)
OpenHas(open, k) == \E i \in 1..Len(open) : open[i].nodeId = k
(* variant: set() on a present key moves the entry to the end *)
OpenSetPutMoving(open, node) ==
    Append(SelectSeq(open, LAMBDA n : n.nodeId # node.nodeId), node)

OpenSetPut(open, node) ==
    IF OpenHas(open, node.nodeId)
    THEN [i \in 1..Len(open) |-> IF open[i].nodeId = node.nodeId THEN node ELSE open[i]]
    ELSE Append(open, node)
OpenDelete(open, k) == SelectSeq(open, LAMBDA n : n.nodeId # k)

(* the scan of lines 157-165: first node with the strictly lowest fScore *)
LowestF(open) ==
    LET i == CHOOSE i \in 1..Len(open) :
                 /\ \A j \in 1..Len(open) : open[i].fScore <= open[j].fScore
                 /\ \A j \in 1..(i-1) : open[j].fScore > open[i].fScore
    IN  open[i]

-----------------------------------------------------------------------------
(* findPath: the A* loop *)

(* variant: the closed flag is not consulted during expansion *)
SkipsClosedNever(neighbor, prefs) == FALSE

SkipsClosed(neighbor, prefs) == neighbor.isClosed /\ ~prefs.avoidStairs

EdgeCost(neighbor, prefs) ==
    IF prefs.preferElevators /\ neighbor.edgeType = "elevator"
    THEN neighbor.distance * ElevatorFactor
    ELSE neighbor.distance * CostUnit

(* one pass of the neighbor loop body (lines 190-227) *)
Relax(st, cur, neighbor, e, prefs) ==
    IF SkipsClosed(neighbor, prefs) THEN st
    ELSE IF neighbor.to \in st.closed THEN st
    ELSE IF ~HasNode(neighbor.to) THEN st
    ELSE
        LET tentativeGScore == MapGet(st.g, cur) + EdgeCost(neighbor, prefs)
        IN  IF MapHas(st.g, neighbor.to) /\ ~(tentativeGScore < MapGet(st.g, neighbor.to))
            THEN st
            ELSE [st EXCEPT
                    !.cameFrom = MapSet(st.cameFrom, neighbor.to, cur),
                    !.g = MapSet(st.g, neighbor.to, tentativeGScore),
                    !.open = OpenSetPut(st.open,
                        [nodeId |-> neighbor.to,
                         gScore |-> tentativeGScore,
                         fScore |-> tentativeGScore
                                    + CostUnit * heuristic(NodeOf(neighbor.to), NodeOf(e)),
                         parent |-> cur])]

RECURSIVE ProcessNeighbors(_, _, _, _, _, _)
ProcessNeighbors(st, cur, neighbors, i, e, prefs) ==
    IF i > Len(neighbors) THEN st
    ELSE ProcessNeighbors(Relax(st, cur, neighbors[i], e, prefs),
                          cur, neighbors, i + 1, e, prefs)

(* variant: the walk appends instead of prepending, leaving the path reversed *)
RECURSIVE ReconstructAppending(_, _, _)
ReconstructAppending(cf, currentId, path) ==
    IF MapHas(cf, currentId)
    THEN ReconstructAppending(cf, MapGet(cf, currentId), path \o <<currentId>>)
    ELSE path \o <<currentId>>

(* lines 172-178: walk cameFrom back from the end node *)
RECURSIVE Reconstruct(_, _, _)
Reconstruct(cf, currentId, path) ==
    IF MapHas(cf, currentId)
    THEN Reconstruct(cf, MapGet(cf, currentId), <<currentId>> \o path)
    ELSE <<currentId>> \o path

-----------------------------------------------------------------------------
(* buildRoute *)

EdgeKey(from, to) == from \o "-" \o to

(* variant: the reverse key of a bidirectional edge is not registered *)
EdgeWritesForwardOnly(edge, key) ==
    EdgeKey(edge.from, edge.to) = key

(* the keys an edge registers in edgeMap (lines 246-251) *)
EdgeWrites(edge, key) ==
    \/ EdgeKey(edge.from, edge.to) = key
    \/ edge.bidirectional /\ EdgeKey(edge.to, edge.from) = key

EdgeMapHas(es, key) == \E i \in 1..Len(es) : EdgeWrites(es[i], key)
(* variant: a key already present is not overwritten (first writer wins) *)
EdgeMapGetFirst(es, key) ==
    LET i == CHOOSE i \in 1..Len(es) :
                 /\ EdgeWrites(es[i], key)
                 /\ \A j \in 1..(i-1) : ~EdgeWrites(es[j], key)
    IN  es[i]

EdgeMapGet(es, key) ==
    LET i == CHOOSE i \in 1..Len(es) :
                 /\ EdgeWrites(es[i], key)
                 /\ \A j \in (i+1)..Len(es) : ~EdgeWrites(es[j], key)
    IN  es[i]

(* variant: the quotient is truncated (Math.floor) *)
EstimatedTimeTruncating(d) == (10 * d) \div 12

(* Math.round(d / WALKING_SPEED_MPS) with 1.2 = 12/10, rounding half up *)
EstimatedTime(d) == (10 * d + 6) \div 12

(* distance added for the step into pathNodeIds[i] (lines 262-268) *)
StepDistance(es, pathNodeIds, i) ==
    IF i > 1 /\ EdgeMapHas(es, EdgeKey(pathNodeIds[i-1], pathNodeIds[i]))
    THEN EdgeMapGet(es, EdgeKey(pathNodeIds[i-1], pathNodeIds[i])).distance
    ELSE 0

RECURSIVE RouteNodes(_, _, _, _)
RouteNodes(es, pathNodeIds, i, totalDistance) ==
    IF i > Len(pathNodeIds) THEN [nodes |-> <<>>, total |-> totalDistance]
    ELSE IF ~HasNode(pathNodeIds[i])
    THEN RouteNodes(es, pathNodeIds, i + 1, totalDistance)
    ELSE
        LET node == NodeOf(pathNodeIds[i])
            total == totalDistance + StepDistance(es, pathNodeIds, i)
            rest == RouteNodes(es, pathNodeIds, i + 1, total)
        IN  [nodes |-> << [nodeId |-> node.id, type |-> node.type,
                           x |-> node.x, y |-> node.y, floor |-> node.floor,
                           distanceFromStart |-> total,
                           estimatedTimeFromStart |-> EstimatedTime(total)] >>
                       \o rest.nodes,
             total |-> rest.total]

buildRoute(es, pathNodeIds) ==
    LET built == RouteNodes(es, pathNodeIds, 1, 0)
    IN  [startNode |-> pathNodeIds[1],
         endNode |-> pathNodeIds[Len(pathNodeIds)],
         totalDistance |-> built.total,
         estimatedTime |-> EstimatedTime(built.total),
         path |-> built.nodes]

-----------------------------------------------------------------------------
(* findPath as a whole *)

InitSearch(s, e) ==
    [open |-> << [nodeId |-> s, gScore |-> 0,
                  fScore |-> CostUnit * heuristic(NodeOf(s), NodeOf(e)),
                  parent |-> ""] >>,
     closed |-> {},
     cameFrom |-> {},
     g |-> { <<s, 0>> },
     status |-> "searching",
     route |-> Null]

(* variant: the expanded node is not added to the closed set *)
SearchStepNotClosing(st, es, als, e, prefs) ==
    IF st.open = <<>>
    THEN [st EXCEPT !.status = "returned", !.route = Null]
    ELSE
        LET current == LowestF(st.open)
        IN  IF current.nodeId = e
            THEN [st EXCEPT !.status = "returned",
                            !.route = Some(buildRoute(es, Reconstruct(st.cameFrom, e, <<>>)))]
            ELSE ProcessNeighbors(
                    [st EXCEPT !.open = OpenDelete(st.open, current.nodeId)],
                    current.nodeId,
                    buildGraph(es, als, prefs)[current.nodeId],
                    1, e, prefs)

(* one iteration of the while loop (lines 155-228), or the exit after it *)
SearchStep(st, es, als, e, prefs) ==
    IF st.open = <<>>
    THEN [st EXCEPT !.status = "returned", !.route = Null]
    ELSE
        LET current == LowestF(st.open)
        IN  IF current.nodeId = e
            THEN [st EXCEPT !.status = "returned",
                            !.route = Some(buildRoute(es, Reconstruct(st.cameFrom, e, <<>>)))]
            ELSE ProcessNeighbors(
                    [st EXCEPT !.open = OpenDelete(st.open, current.nodeId),
                               !.closed = st.closed \cup {current.nodeId}],
                    current.nodeId,
                    buildGraph(es, als, prefs)[current.nodeId],
                    1, e, prefs)

RECURSIVE RunSearch(_, _, _, _, _)
RunSearch(st, es, als, e, prefs) ==
    IF st.status = "returned" THEN st
    ELSE RunSearch(SearchStep(st, es, als, e, prefs), es, als, e, prefs)

findPath(es, als, s, e, prefs) ==
    IF ~HasNode(s) \/ ~HasNode(e) THEN Null
    ELSE RunSearch(InitSearch(s, e), es, als, e, prefs).route

-----------------------------------------------------------------------------
(* findRouteToNearest *)

TargetTypes == {"room", "door", "elevator"}

(* variant: a later candidate at the same distance replaces the best one *)
CloserOrEqual(r, best) ==
    best = Null \/ r.totalDistance <= best[1].totalDistance

(* route.totalDistance < shortestDistance, Infinity while best is null *)
Closer(r, best) ==
    best = Null \/ r.totalDistance < best[1].totalDistance

(* the loop over targetNodes (lines 309-316), from map.nodes[i] on *)
RECURSIVE NearestFrom(_, _, _, _, _, _, _)
NearestFrom(es, als, s, type, prefs, i, bestRoute) ==
    IF i > Len(MapNodes) THEN bestRoute
    ELSE IF MapNodes[i].type # type
    THEN NearestFrom(es, als, s, type, prefs, i + 1, bestRoute)
    ELSE
        LET r == findPath(es, als, s, MapNodes[i].id, prefs)
        IN  IF r # Null /\ Closer(r[1], bestRoute)
            THEN NearestFrom(es, als, s, type, prefs, i + 1, r)
            ELSE NearestFrom(es, als, s, type, prefs, i + 1, bestRoute)

findRouteToNearest(es, als, s, type, prefs) ==
    NearestFrom(es, als, s, type, prefs, 1, Null)

-----------------------------------------------------------------------------
(* findAlternativeRoutes *)

(* preferenceVariants (lines 379-383); avoidCrowdedAreas is read nowhere *)
preferenceVariants ==
    << [avoidStairs |-> FALSE, preferElevators |-> FALSE],
       [avoidStairs |-> TRUE,  preferElevators |-> TRUE],
       [avoidStairs |-> FALSE, preferElevators |-> TRUE] >>

(* route.path.map(n => n.nodeId).join('-') *)
RECURSIVE JoinIds(_, _)
JoinIds(path, i) ==
    IF i > Len(path) THEN ""
    ELSE IF i = Len(path) THEN path[i].nodeId
    ELSE path[i].nodeId \o "-" \o JoinIds(path, i + 1)

pathKey(r) == JoinIds(r.path, 1)

(* variant: the loop stops one route too late *)
CountReachedLate(routes, n) == Len(routes) > n

(* routes.length >= count (line 388) *)
CountReached(routes, n) == Len(routes) >= n

(* the loop over preferenceVariants (lines 387-399), from variant i on *)
RECURSIVE AlternativesFrom(_, _, _, _, _, _, _)
AlternativesFrom(es, als, s, e, n, i, routes) ==
    IF i > Len(preferenceVariants) THEN routes
    ELSE IF CountReached(routes, n) THEN routes
    ELSE
        LET r == findPath(es, als, s, e, preferenceVariants[i])
            seenPaths == { pathKey(routes[j]) : j \in 1..Len(routes) }
        IN  IF r # Null /\ pathKey(r[1]) \notin seenPaths
            THEN AlternativesFrom(es, als, s, e, n, i + 1, Append(routes, r[1]))
            ELSE AlternativesFrom(es, als, s, e, n, i + 1, routes)

findAlternativeRoutes(es, als, s, e, n) ==
    AlternativesFrom(es, als, s, e, n, 1, <<>>)

-----------------------------------------------------------------------------
(* validateRoute *)

ClosedNodeIds(als) ==
    UNION { SeqToSet(als[i].affectedNodes) : i \in 1..Len(als) }

validateRoute(es, als, r) ==
    /\ \A i \in 1..Len(r.path) : r.path[i].nodeId \notin ClosedNodeIds(als)
    /\ \A i \in 1..(Len(r.path) - 1) :
          LET key == EdgeKey(r.path[i].nodeId, r.path[i+1].nodeId)
          IN  ~(EdgeMapHas(es, key) /\ EdgeMapGet(es, key).id \in ClosedEdgeIds(als))

-----------------------------------------------------------------------------
(* calculateTurn.  The bearing of a segment is atan2(dx, dy); the turn is   *)
(* decided here from the dot and cross products of the two segment vectors, *)
(* which orders angles exactly as the difference of bearings does.          *)

(* direction of the bearing calculateAngle returns; atan2(0, 0) is 0 = north *)
Direction(from, to) ==
    IF to.x = from.x /\ to.y = from.y THEN <<0, 1>>
    ELSE <<to.x - from.x, to.y - from.y>>

(* absAngle < deg for the three thresholds, with cos^2 30 = cos^2 150 = 3/4 *)
AbsAngleBelow(dot, norm2, deg) ==
    CASE deg = TURN_THRESHOLD -> dot > 0 /\ 4 * dot * dot > 3 * norm2
      [] deg = SLIGHT_TURN_THRESHOLD -> dot > 0 /\ 4 * dot * dot > norm2
      [] deg = AROUND_THRESHOLD -> dot >= 0 \/ 4 * dot * dot < 3 * norm2

(* variant: a positive difference of bearings is taken for a left turn *)
calculateTurnCounterclockwise(prev, current, next) ==
    LET u == Direction(prev, current)
        v == Direction(current, next)
        dot == u[1] * v[1] + u[2] * v[2]
        cross == u[1] * v[2] - u[2] * v[1]
        norm2 == (u[1] * u[1] + u[2] * u[2]) * (v[1] * v[1] + v[2] * v[2])
        clockwise == cross > 0
    IN  IF AbsAngleBelow(dot, norm2, TURN_THRESHOLD) THEN "go_straight"
        ELSE IF AbsAngleBelow(dot, norm2, SLIGHT_TURN_THRESHOLD)
        THEN (IF clockwise THEN "slight_right" ELSE "slight_left")
        ELSE IF AbsAngleBelow(dot, norm2, AROUND_THRESHOLD)
        THEN (IF clockwise THEN "turn_right" ELSE "turn_left")
        ELSE "turn_around"

calculateTurn(prev, current, next) ==
    LET u == Direction(prev, current)
        v == Direction(current, next)
        dot == u[1] * v[1] + u[2] * v[2]
        cross == u[1] * v[2] - u[2] * v[1]
        norm2 == (u[1] * u[1] + u[2] * u[2]) * (v[1] * v[1] + v[2] * v[2])
        clockwise == cross < 0      \* angleDiff > 0
    IN  IF AbsAngleBelow(dot, norm2, TURN_THRESHOLD) THEN "go_straight"
        ELSE IF AbsAngleBelow(dot, norm2, SLIGHT_TURN_THRESHOLD)
        THEN (IF clockwise THEN "slight_right" ELSE "slight_left")
        ELSE IF AbsAngleBelow(dot, norm2, AROUND_THRESHOLD)
        THEN (IF clockwise THEN "turn_right" ELSE "turn_left")
        ELSE "turn_around"

getLandmarkDescription(node) ==
    CASE node.type = "door" ->
            IF node.roomNumber # "" THEN "door to room " \o node.roomNumber ELSE "a door"
      [] node.type = "elevator" -> "the elevator"
      [] node.type = "stairs" -> "the stairs"
      [] node.type = "restroom" -> "the restroom"
      [] node.type = "intersection" -> "the intersection"
      [] node.type = "exit" -> "the exit"
      [] OTHER -> ""

-----------------------------------------------------------------------------
(* generateInstructions.  An instruction's id stands for the object's      *)
(* identity (uuidv4); distance is <<>> when the field is absent.           *)

(* variant: only a turn makes a node a waypoint *)
isSignificantNodeByTurn(currentNode, turn) ==
    turn # "go_straight"

isSignificantNode(currentNode, turn) ==
    \/ currentNode.type = "door"
    \/ currentNode.type = "elevator"
    \/ currentNode.type = "stairs"
    \/ currentNode.type = "intersection"
    \/ turn # "go_straight"

(* variant: interior instructions do not take the running step number *)
NodeInstructionUnnumbered(currentNode, nextNode, turn, accumulatedDistance, stepNumber) ==
    [id |-> stepNumber, stepNumber |-> 1, action |-> turn,
     distance |-> Some(accumulatedDistance),
     landmark |-> getLandmarkDescription(currentNode), priority |-> "normal"]

(* the instruction of lines 272-317 for interior node i *)
NodeInstruction(currentNode, nextNode, turn, accumulatedDistance, stepNumber) ==
    CASE currentNode.type = "elevator" ->
            [id |-> stepNumber, stepNumber |-> stepNumber, action |-> "take_elevator",
             distance |-> Some(accumulatedDistance), landmark |-> "elevator",
             priority |-> "important"]
      [] currentNode.type = "stairs" ->
            [id |-> stepNumber, stepNumber |-> stepNumber,
             action |-> IF nextNode.floor > currentNode.floor
                        THEN "take_stairs_up" ELSE "take_stairs_down",
             distance |-> Some(accumulatedDistance), landmark |-> "stairs",
             priority |-> "important"]
      [] currentNode.type = "door" ->
            [id |-> stepNumber, stepNumber |-> stepNumber, action |-> "enter_door",
             distance |-> Some(accumulatedDistance), landmark |-> currentNode.roomNumber,
             priority |-> "normal"]
      [] OTHER ->
            [id |-> stepNumber, stepNumber |-> stepNumber, action |-> turn,
             distance |-> Some(accumulatedDistance),
             landmark |-> getLandmarkDescription(currentNode),
             priority |-> IF turn = "turn_around" THEN "important" ELSE "normal"]

(* the loop of lines 240-323 from interior index i (1-based) on *)
RECURSIVE Segments(_, _, _, _, _)
Segments(nodes, path, i, accumulatedDistance, stepNumber) ==
    IF i > Len(path) - 1
    THEN [list |-> <<>>, accumulatedDistance |-> accumulatedDistance,
          stepNumber |-> stepNumber]
    ELSE IF ~(HasNodeIn(nodes, path[i-1].nodeId) /\ HasNodeIn(nodes, path[i].nodeId)
                /\ HasNodeIn(nodes, path[i+1].nodeId))
    THEN Segments(nodes, path, i + 1, accumulatedDistance, stepNumber)
    ELSE
        LET currentNode == NodeIn(nodes, path[i].nodeId)
            nextNode == NodeIn(nodes, path[i+1].nodeId)
            acc == accumulatedDistance
                   + (path[i].distanceFromStart - path[i-1].distanceFromStart)
            turn == calculateTurn(NodeIn(nodes, path[i-1].nodeId), currentNode, nextNode)
        IN  IF isSignificantNode(currentNode, turn)
            THEN LET rest == Segments(nodes, path, i + 1, 0, stepNumber + 1)
                 IN  [rest EXCEPT !.list =
                        <<NodeInstruction(currentNode, nextNode, turn, acc, stepNumber)>>
                        \o rest.list]
            ELSE Segments(nodes, path, i + 1, acc, stepNumber)

(* variant: the arrive instruction covers the last segment only *)
generateInstructionsLastSegment(r, nodes) ==
    LET path == r.path
        n == Len(path)
    IN  IF n < 2 THEN <<>>
        ELSE
            LET mid == Segments(nodes, path, 2, 0, 2)
            IN  << [id |-> 1, stepNumber |-> 1, action |-> "start",
                    distance |-> Null, landmark |-> "", priority |-> "normal"] >>
                \o mid.list
                \o << [id |-> mid.stepNumber, stepNumber |-> mid.stepNumber,
                       action |-> "arrive",
                       distance |-> Some(path[n].distanceFromStart
                                         - path[n-1].distanceFromStart),
                       landmark |-> "", priority |-> "important"] >>

generateInstructions(r, nodes) ==
    LET path == r.path
        n == Len(path)
    IN  IF n < 2 THEN <<>>
        ELSE
            LET hasStart == HasNodeIn(nodes, path[1].nodeId) /\ HasNodeIn(nodes, path[2].nodeId)
                first == IF hasStart
                         THEN << [id |-> 1, stepNumber |-> 1, action |-> "start",
                                  distance |-> Null, landmark |-> "",
                                  priority |-> "normal"] >>
                         ELSE <<>>
                mid == Segments(nodes, path, 2, 0, Len(first) + 1)
                lastNode == NodeIn(nodes, path[n].nodeId)
                final == IF HasNodeIn(nodes, path[n].nodeId) /\ HasNodeIn(nodes, path[n-1].nodeId)
                         THEN << [id |-> mid.stepNumber, stepNumber |-> mid.stepNumber,
                                  action |-> "arrive",
                                  distance |-> Some(mid.accumulatedDistance
                                      + (path[n].distanceFromStart
                                         - path[n-1].distanceFromStart)),
                                  landmark |-> IF lastNode.roomNumber # ""
                                               THEN lastNode.roomNumber
                                               ELSE getLandmarkDescription(lastNode),
                                  priority |-> "important"] >>
                         ELSE <<>>
            IN  first \o mid.list \o final

-----------------------------------------------------------------------------
(* simplifyInstructions.  Distances are whole meters.                      *)

(* Math.round(meters / STEP_LENGTH_METERS), one step being 0.75 = 3/4 m *)
metersToSteps(meters) == (8 * meters + 3) \div 6

(* Math.round(n / 5) * 5 *)
RoundToFive(n) == ((2 * n + 5) \div 10) * 5

formatDistance(meters) ==
    LET steps == metersToSteps(meters)
    IN  IF steps <= 2 THEN "a couple of steps"
        ELSE IF steps <= 5 THEN "a few steps"
        ELSE IF steps <= 10 THEN "about " \o ToString(steps) \o " steps"
        ELSE IF steps <= 20 THEN "about " \o ToString(RoundToFive(steps)) \o " steps"
        ELSE "about " \o ToString(RoundToFive(meters)) \o " meters"

IsStraight(action) == action = "go_straight" \/ action = "walk_forward"

(* variant: only instructions of the same action are merged *)
MergesSameAction(last, instruction) ==
    /\ IsStraight(last.action)
    /\ last.action = instruction.action

(* the condition of lines 388-392, last being defined *)
Merges(last, instruction) ==
    /\ IsStraight(last.action)
    /\ IsStraight(instruction.action)

(* d ?? 0 *)
OrZero(d) == IF d = Null THEN 0 ELSE d[1]

(* the loop of lines 384-400 from instructions[i] on *)
RECURSIVE SimplifyFrom(_, _, _)
SimplifyFrom(instrs, i, acc) ==
    IF i > Len(instrs) THEN acc
    ELSE IF acc # <<>> /\ Merges(acc[Len(acc)], instrs[i])
    THEN
        LET last == acc[Len(acc)]
            combinedDistance == OrZero(last.distance) + OrZero(instrs[i].distance)
        IN  SimplifyFrom(instrs, i + 1,
                [acc EXCEPT ![Len(acc)] =
                    [last EXCEPT
                       !.distance = Some(combinedDistance),
                       !.description = "Continue straight for "
                                       \o formatDistance(combinedDistance) \o ".",
                       !.spokenText = "Continue walking straight for "
                                      \o formatDistance(combinedDistance) \o "."]])
    ELSE SimplifyFrom(instrs, i + 1, Append(acc, instrs[i]))

simplifyInstructions(instrs) == SimplifyFrom(instrs, 1, <<>>)

-----------------------------------------------------------------------------
(* addHazardWarnings *)

PathIndex(currentPath, nodeId) ==     \* findIndex, 0-based; -1 when absent
    IF \E i \in 1..Len(currentPath) : currentPath[i].nodeId = nodeId
    THEN (CHOOSE i \in 1..Len(currentPath) :
              /\ currentPath[i].nodeId = nodeId
              /\ \A j \in 1..(i-1) : currentPath[j].nodeId # nodeId) - 1
    ELSE -1

(* result.splice(start, 0, item) *)
Splice(list, start, item) ==
    LET at == IF start > Len(list) THEN Len(list) ELSE start
    IN  SubSeq(list, 1, at) \o <<item>> \o SubSeq(list, at + 1, Len(list))

CautionInstruction(alert, id) ==
    [id |-> id, stepNumber |-> 0, action |-> "caution", distance |-> Null,
     landmark |-> "",
     priority |-> IF alert.severity = "critical" THEN "critical" ELSE "important"]

(* the double loop of lines 419-440, from alert a, affected node k on *)
RECURSIVE Insertions(_, _, _, _, _, _)
Insertions(result, als, currentPath, a, k, nextId) ==
    IF a > Len(als) THEN result
    ELSE IF k > Len(als[a].affectedNodes)
    THEN Insertions(result, als, currentPath, a + 1, 1, nextId)
    ELSE
        LET nodeIndex == PathIndex(currentPath, als[a].affectedNodes[k])
        IN  IF nodeIndex >= 0
            THEN Insertions(Splice(result, nodeIndex,
                                   CautionInstruction(als[a], nextId)),
                            als, currentPath, a, k + 1, nextId + 1)
            ELSE Insertions(result, als, currentPath, a, k + 1, nextId)

MaxId(list) ==
    IF list = <<>> THEN 0
    ELSE CHOOSE m \in { list[i].id : i \in 1..Len(list) } :
            \A i \in 1..Len(list) : list[i].id <= m

(* variant: the renumbering pass is missing *)
RenumberNothing(result) == result

(* lines 443-445: every object of result gets its index + 1 *)
Renumber(result) ==
    [i \in 1..Len(result) |-> [result[i] EXCEPT !.stepNumber = i]]

(* The returned list, and the list passed in as the caller sees it after   *)
(* the call: result is a shallow copy, so both hold the same objects.      *)
addHazardWarnings(instrs, als, currentPath) ==
    LET result == Renumber(Insertions(instrs, als, currentPath, 1, 1, MaxId(instrs) + 1))
        SameObject(i) == CHOOSE j \in 1..Len(result) : result[j].id = instrs[i].id
    IN  [result |-> result,
         argument |-> [i \in 1..Len(instrs) |-> result[SameObject(i)]]]

-----------------------------------------------------------------------------
(* The state machine: a caller takes a map snapshot, calls findPath, and   *)
(* passes the Route on to validateRoute, generateInstructions and          *)
(* addHazardWarnings.                                                      *)

(* no simplifyInstructions call and no camera stream in this run *)
SimplifyIdle ==
    /\ given = <<>>
    /\ simplified = Null
    /\ resimplified = Null

CameraIdle ==
    /\ readyState = "none"
    /\ isStreaming = FALSE
    /\ isConnected = FALSE
    /\ awaitingResponse = FALSE
    /\ encoding = 0
    /\ reading = 0
    /\ unanswered = 0
    /\ incoming = 0

(* no generateInstructions call and no calculateTurn call on their own *)
WalkIdle ==
    /\ walked = Null
    /\ directions = Null

TurnIdle ==
    /\ corner = Null
    /\ turned = Null

(* useSpeaker as its refs are created (lines 628-630) *)
SpeakerIdle ==
    /\ phase = [id \in 1..MaxUtterances |-> "none"]
    /\ isSpeakingRef = FALSE
    /\ audioRef = 0
    /\ blobUrlRef = 0
    /\ playing = {}
    /\ synth = <<>>
    /\ superseded = {}

(* a SpeechQueue and its AudioPlayer as constructed (part_008 lines        *)
(* 219-223, 365-368)                                                       *)
QueueIdle ==
    /\ speechQueue = <<>>
    /\ currentItem = 0
    /\ isProcessing = FALSE
    /\ loops = {}
    /\ player = [isPlaying |-> FALSE, currentSource |-> 0, onEndCallback |-> 0,
                 sounding |-> {}, ended |-> {}]
    /\ added = 0
    /\ removed = {}
    /\ awaited = 0

SpeechIdle ==
    /\ SpeakerIdle
    /\ QueueIdle

LaterIdle ==
    /\ WalkIdle
    /\ TurnIdle
    /\ SpeechIdle

NoSearch ==
    /\ openSet' = <<>>
    /\ closedSet' = {}
    /\ cameFrom' = {}
    /\ gScores' = {}

(* no routing call has been made *)
CallerIdle ==
    /\ pc = "idle"
    /\ startNodeId = ""
    /\ endNodeId = ""
    /\ preferences = [avoidStairs |-> FALSE, preferElevators |-> FALSE]
    /\ openSet = <<>>
    /\ closedSet = {}
    /\ cameFrom = {}
    /\ gScores = {}
    /\ route = Null
    /\ valid = Null
    /\ instructions = Null
    /\ annotated = Null
    /\ targetType = ""
    /\ nearest = Null
    /\ count = 0
    /\ alternatives = <<>>
    /\ earlier = FALSE

Init ==
    /\ edges \in EdgeLists
    /\ alerts \in AlertLists
    /\ CallerIdle
    /\ SimplifyIdle
    /\ CameraIdle
    /\ LaterIdle

(* variant: the closed set outlives the call instead of being created in it *)
FindPathEnterStale(s, e, prefs) ==
    /\ startNodeId' = s
    /\ endNodeId' = e
    /\ preferences' = prefs
    /\ route' = Null
    /\ valid' = Null
    /\ instructions' = Null
    /\ annotated' = Null
    /\ IF ~HasNode(s) \/ ~HasNode(e)
       THEN /\ pc' = "returned"
            /\ NoSearch
       ELSE LET st == InitSearch(s, e)
            IN  /\ pc' = "searching"
                /\ openSet' = st.open
                /\ closedSet' = closedSet
                /\ cameFrom' = st.cameFrom
                /\ gScores' = st.g
    /\ UNCHANGED <<simplifyVars, cameraVars, laterVars>>
    /\ UNCHANGED <<edges, alerts, targetType, nearest, count, alternatives>>

(* findPath up to the loop head (lines 123-153), or its early return: the  *)
(* graph, open set, closed set, cameFrom and gScore are created here       *)
FindPathEnter(s, e, prefs) ==
    /\ startNodeId' = s
    /\ endNodeId' = e
    /\ preferences' = prefs
    /\ route' = Null
    /\ valid' = Null
    /\ instructions' = Null
    /\ annotated' = Null
    /\ IF ~HasNode(s) \/ ~HasNode(e)
       THEN /\ pc' = "returned"
            /\ NoSearch
       ELSE LET st == InitSearch(s, e)
            IN  /\ pc' = "searching"
                /\ openSet' = st.open
                /\ closedSet' = st.closed
                /\ cameFrom' = st.cameFrom
                /\ gScores' = st.g
    /\ UNCHANGED <<simplifyVars, cameraVars, laterVars>>
    /\ UNCHANGED <<edges, alerts, targetType, nearest, count, alternatives>>

FindPathCall(s, e, prefs) ==
    /\ pc = "idle"
    /\ FindPathEnter(s, e, prefs)
    /\ UNCHANGED earlier

(* one iteration of the while loop, or the return that ends the call *)
FindPathLoop ==
    /\ pc = "searching"
    /\ LET st == SearchStep([open |-> openSet, closed |-> closedSet,
                             cameFrom |-> cameFrom, g |-> gScores,
                             status |-> "searching", route |-> Null],
                            edges, alerts, endNodeId, preferences)
       IN  /\ pc' = st.status
           /\ openSet' = st.open
           /\ closedSet' = st.closed
           /\ cameFrom' = st.cameFrom
           /\ gScores' = st.g
           /\ route' = st.route
    /\ UNCHANGED outside
    /\ UNCHANGED <<edges, alerts, startNodeId, endNodeId, preferences, valid,
                   instructions, annotated, targetType, nearest, count, alternatives>>

ValidateRoute ==
    /\ pc = "returned"
    /\ route # Null
    /\ valid = Null
    /\ valid' = Some(validateRoute(edges, alerts, route[1]))
    /\ UNCHANGED outside
    /\ UNCHANGED <<edges, alerts, pc, startNodeId, endNodeId, preferences, openSet,
                   closedSet, cameFrom, gScores, route, instructions, annotated,
                   targetType, nearest, count, alternatives>>

(* variant: a single-node route yields a lone arrival instruction *)
GenerateInstructionsArriving ==
    /\ pc = "returned"
    /\ route # Null
    /\ instructions = Null
    /\ instructions' =
          Some(IF Len(route[1].path) < 2
               THEN << [id |-> 1, stepNumber |-> 1, action |-> "arrive",
                        distance |-> Some(0), landmark |-> "",
                        priority |-> "important"] >>
               ELSE generateInstructions(route[1], MapNodes))
    /\ UNCHANGED outside
    /\ UNCHANGED <<edges, alerts, pc, startNodeId, endNodeId, preferences, openSet,
                   closedSet, cameFrom, gScores, route, valid, annotated,
                   targetType, nearest, count, alternatives>>

GenerateInstructions ==
    /\ pc = "returned"
    /\ route # Null
    /\ instructions = Null
    /\ instructions' = Some(generateInstructions(route[1], MapNodes))
    /\ UNCHANGED outside
    /\ UNCHANGED <<edges, alerts, pc, startNodeId, endNodeId, preferences, openSet,
                   closedSet, cameFrom, gScores, route, valid, annotated,
                   targetType, nearest, count, alternatives>>

AddHazardWarnings ==
    /\ pc = "returned"
    /\ route # Null
    /\ instructions # Null
    /\ annotated = Null
    /\ LET out == addHazardWarnings(instructions[1], alerts, route[1].path)
       IN  /\ annotated' = Some(out.result)
           /\ instructions' = Some(out.argument)
    /\ UNCHANGED outside
    /\ UNCHANGED <<edges, alerts, pc, startNodeId, endNodeId, preferences, openSet,
                   closedSet, cameFrom, gScores, route, valid,
                   targetType, nearest, count, alternatives>>

FindRouteToNearest(s, type, prefs) ==
    /\ pc = "idle"
    /\ pc' = "nearest"
    /\ startNodeId' = s
    /\ targetType' = type
    /\ preferences' = prefs
    /\ nearest' = findRouteToNearest(edges, alerts, s, type, prefs)
    /\ UNCHANGED outside
    /\ UNCHANGED <<edges, alerts, endNodeId, openSet, closedSet, cameFrom, gScores,
                   route, valid, instructions, annotated, count, alternatives>>

FindAlternativeRoutes(s, e, n) ==
    /\ pc = "idle"
    /\ pc' = "alternatives"
    /\ startNodeId' = s
    /\ endNodeId' = e
    /\ count' = n
    /\ alternatives' = findAlternativeRoutes(edges, alerts, s, e, n)
    /\ UNCHANGED outside
    /\ UNCHANGED <<edges, alerts, preferences, openSet, closedSet, cameFrom, gScores,
                   route, valid, instructions, annotated, targetType, nearest>>

Next ==
    \/ \E s \in QueryIds, e \in QueryIds, prefs \in PreferenceSets :
          FindPathCall(s, e, prefs)
    \/ \E s \in QueryIds, e \in QueryIds, n \in 0..MaxCount :
          FindAlternativeRoutes(s, e, n)
    \/ \E s \in QueryIds, type \in TargetTypes, prefs \in PreferenceSets :
          FindRouteToNearest(s, type, prefs)
    \/ FindPathLoop
    \/ ValidateRoute
    \/ GenerateInstructions
    \/ AddHazardWarnings

Spec == Init /\ [][Next]_vars

-----------------------------------------------------------------------------
(* The same caller, calling findPath a second time on the snapshot once    *)
(* a first call that expanded at least one node has returned.              *)

SessionEdgeLists ==
    { Pick(EdgeCatalog, S, 1) :
        S \in { T \in SUBSET (1..Len(EdgeCatalog)) : Cardinality(T) <= MaxSessionEdges } }

InitSession ==
    /\ edges \in SessionEdgeLists
    /\ alerts \in AlertLists
    /\ CallerIdle
    /\ SimplifyIdle
    /\ CameraIdle
    /\ LaterIdle

FindPathAgain(s, e, prefs) ==
    /\ pc = "returned"
    /\ closedSet # {}
    /\ valid = Null
    /\ instructions = Null
    /\ ~earlier
    /\ earlier' = TRUE
    /\ FindPathEnter(s, e, prefs)

NextSession ==
    \/ Next
    \/ \E s \in QueryIds, e \in QueryIds, prefs \in PreferenceSets :
          FindPathAgain(s, e, prefs)

SpecSession == InitSession /\ [][NextSession]_vars

-----------------------------------------------------------------------------
(* The search alone, on larger maps without alerts: findPath is called     *)
(* once and stepped to its return.                                         *)

SearchEdgeLists ==
    { Pick(EdgeCatalog, S, 1) :
        S \in { T \in SUBSET (1..Len(EdgeCatalog)) : Cardinality(T) <= MaxSearchEdges } }

InitSearchOnly ==
    /\ edges \in SearchEdgeLists
    /\ alerts = <<>>
    /\ CallerIdle
    /\ SimplifyIdle
    /\ CameraIdle
    /\ LaterIdle

NextSearch ==
    \/ \E s \in QueryIds, e \in QueryIds, prefs \in PreferenceSets :
          FindPathCall(s, e, prefs)
    \/ FindPathLoop

SpecSearch == InitSearchOnly /\ [][NextSearch]_vars

-----------------------------------------------------------------------------
(* Another system: a caller hands a list of instructions to                *)
(* simplifyInstructions and hands the result to it once more.              *)

InstructionShapes ==
    [action : {"go_straight", "walk_forward", "turn_left"},
     distance : {Null, Some(2), Some(9)}]

(* the instruction of shape sh standing at position i of a list *)
InstructionAt(sh, i) ==
    [stepNumber |-> i, action |-> sh.action, distance |-> sh.distance,
     description |-> "Step " \o ToString(i), spokenText |-> "Step " \o ToString(i)]

GivenLists ==
    UNION { { [i \in 1..n |-> InstructionAt(shapes[i], i)] :
                shapes \in [1..n -> InstructionShapes] } : n \in 0..MaxInstructions }

InitSimplify ==
    /\ edges = <<>>
    /\ alerts = <<>>
    /\ CallerIdle
    /\ CameraIdle
    /\ LaterIdle
    /\ given \in GivenLists
    /\ simplified = Null
    /\ resimplified = Null

Simplify ==
    /\ simplified = Null
    /\ simplified' = Some(simplifyInstructions(given))
    /\ UNCHANGED <<routingVars, cameraVars, laterVars, given, resimplified>>

SimplifyAgain ==
    /\ simplified # Null
    /\ resimplified = Null
    /\ resimplified' = Some(simplifyInstructions(simplified[1]))
    /\ UNCHANGED <<routingVars, cameraVars, laterVars, given, simplified>>

NextSimplify == Simplify \/ SimplifyAgain

SpecSimplify == InitSimplify /\ [][NextSimplify]_vars

-----------------------------------------------------------------------------
(* Vocabulary of the properties, stated on the map itself and independent  *)
(* of the operators above.                                                 *)

Returned == pc = "returned"
Found == pc = "returned" /\ route # Null
TheRoute == route[1]
PathIds(r) == [i \in 1..Len(r.path) |-> r.path[i].nodeId]

EdgeSet == SeqToSet(edges)

(* edge joins a to b, respecting bidirectionality *)
Joins(edge, a, b) ==
    \/ edge.from = a /\ edge.to = b
    \/ edge.bidirectional /\ edge.from = b /\ edge.to = a

AlertAffectsEdge(edge) ==
    \E i \in 1..Len(alerts) : edge.id \in SeqToSet(alerts[i].affectedEdges)
AlertAffectsNode(n) ==
    \E i \in 1..Len(alerts) : n \in SeqToSet(alerts[i].affectedNodes)

ClosedEdge(edge) ==
    AlertAffectsEdge(edge) \/ edge.temporaryClosure \/ ~edge.accessible

(* the edges the search may traverse under the preferences of the call *)
Traversable(edge) ==
    IF preferences.avoidStairs THEN edge.type # "stairs" ELSE ~ClosedEdge(edge)

SearchCost(edge) ==
    IF preferences.preferElevators /\ edge.type = "elevator"
    THEN ElevatorFactor * edge.distance
    ELSE CostUnit * edge.distance

Min(S) == CHOOSE m \in S : \A x \in S : m <= x

(* nodes reachable from s over the edges satisfying Ok *)
RECURSIVE ReachVia(_, _)
ReachVia(Ok(_), R) ==
    LET more == R \cup { n \in NodeIds :
                    \E m \in R, edge \in EdgeSet : Ok(edge) /\ Joins(edge, m, n) }
    IN  IF more = R THEN R ELSE ReachVia(Ok, more)

(* least search costs from startNodeId, as a set of <<node, cost>> pairs    *)
(* holding the nodes reached so far; one round relaxes every edge once     *)
RelaxAll(best) ==
    LET Reached(n) == \E p \in best : p[1] = n
        Cands(n) == { p[2] : p \in { q \in best : q[1] = n } }
                    \cup { p[2] + SearchCost(edge) :
                             <<p, edge>> \in { pe \in best \X EdgeSet :
                                 Traversable(pe[2]) /\ Joins(pe[2], pe[1][1], n) } }
    IN  { <<n, Min(Cands(n))>> : n \in { m \in NodeIds : Cands(m) # {} } }

RECURSIVE Best(_, _)
Best(best, rounds) ==
    IF rounds = 0 THEN best ELSE Best(RelaxAll(best), rounds - 1)

MinimalCost(n) ==
    MapGet(Best({ <<startNodeId, 0>> }, Cardinality(NodeIds)), n)

(* search cost of a node sequence: the cheapest traversable edge per step *)
RECURSIVE PathCost(_, _)
PathCost(ids, i) ==
    IF i >= Len(ids) THEN 0
    ELSE Min({ SearchCost(edge) : edge \in { x \in EdgeSet :
                    Traversable(x) /\ Joins(x, ids[i], ids[i+1]) } })
         + PathCost(ids, i + 1)

ConsecutivePairs(r) == 1..(Len(r.path) - 1)

-----------------------------------------------------------------------------
(* C1: every Route findPath returns has minimal total search cost (edge     *)
(* distance, times 0.8 on elevator edges under preferElevators) among all  *)
(* start-to-end paths over the traversable edges.                          *)
C1_RouteIsCheapest ==
    Found =>
        /\ \A i \in ConsecutivePairs(TheRoute) :
              \E edge \in EdgeSet :
                 Traversable(edge) /\ Joins(edge, PathIds(TheRoute)[i], PathIds(TheRoute)[i+1])
        /\ PathCost(PathIds(TheRoute), 1) = MinimalCost(endNodeId)

(* C2: a returned Route starts at start and ends at end, in startNode,     *)
(* endNode and the path; for start = end the path is the single node.      *)
C2_RouteEndpoints ==
    Found =>
        /\ TheRoute.startNode = startNodeId
        /\ TheRoute.endNode = endNodeId
        /\ Len(TheRoute.path) >= 1
        /\ TheRoute.path[1].nodeId = startNodeId
        /\ TheRoute.path[Len(TheRoute.path)].nodeId = endNodeId
        /\ (startNodeId = endNodeId => Len(TheRoute.path) = 1)

C2_Witness ==
    Found /\ Len(TheRoute.path) >= 3 /\ startNodeId # endNodeId

(* C3 as stated: totalDistance equals the g-cost the search computed for   *)
(* the end node (discount included), here in cost units.                   *)
C3_TotalIsSearchCost ==
    Found => CostUnit * TheRoute.totalDistance = MapGet(gScores, endNodeId)

(* the last edge of map.edges that joins a to b *)
LastJoining(a, b) ==
    edges[CHOOSE i \in 1..Len(edges) :
             /\ Joins(edges[i], a, b)
             /\ \A j \in (i+1)..Len(edges) : ~Joins(edges[j], a, b)]

RECURSIVE LookupDistance(_, _)
LookupDistance(ids, i) ==
    IF i >= Len(ids) THEN 0
    ELSE LastJoining(ids[i], ids[i+1]).distance + LookupDistance(ids, i + 1)

(* C3 amended: totalDistance is the sum, over consecutive path pairs, of   *)
(* the undiscounted distance of the last edge of map.edges joining the     *)
(* pair; the last path node carries the same total.                        *)
C3_TotalIsLookupSum ==
    Found =>
        /\ \A i \in ConsecutivePairs(TheRoute) :
              \E edge \in EdgeSet :
                 Joins(edge, PathIds(TheRoute)[i], PathIds(TheRoute)[i+1])
        /\ TheRoute.totalDistance = LookupDistance(PathIds(TheRoute), 1)
        /\ TheRoute.path[Len(TheRoute.path)].distanceFromStart = TheRoute.totalDistance

(* a route over a discounted elevator edge that has a parallel edge *)
C3_Witness ==
    /\ Found
    /\ preferences.preferElevators
    /\ CostUnit * TheRoute.totalDistance # MapGet(gScores, endNodeId)
    /\ \E i \in ConsecutivePairs(TheRoute) :
          \E e1 \in EdgeSet, e2 \in EdgeSet :
             /\ e1.id # e2.id
             /\ e1.type = "elevator"
             /\ Joins(e1, PathIds(TheRoute)[i], PathIds(TheRoute)[i+1])
             /\ Joins(e2, PathIds(TheRoute)[i], PathIds(TheRoute)[i+1])

(* C4: validateRoute is true for a Route findPath just returned on the     *)
(* same, unchanged snapshot.                                               *)
C4_FreshRouteIsValid ==
    valid # Null => valid[1] = TRUE

(* C5: with avoidStairs the built graph holds no stairs edge, every step   *)
(* of a returned path has a non-stairs edge under it, and an end reachable *)
(* only over stairs is not found.                                          *)
NonStairs(edge) == edge.type # "stairs"

C5_AvoidStairs ==
    (Returned /\ preferences.avoidStairs) =>
        /\ \A n \in NodeIds :
              \A k \in 1..Len(buildGraph(edges, alerts, preferences)[n]) :
                 buildGraph(edges, alerts, preferences)[n][k].edgeType # "stairs"
        /\ route # Null =>
              \A i \in ConsecutivePairs(TheRoute) :
                 \E edge \in EdgeSet :
                    NonStairs(edge) /\ Joins(edge, PathIds(TheRoute)[i], PathIds(TheRoute)[i+1])
        /\ (HasNode(startNodeId) /\ endNodeId \notin ReachVia(NonStairs, {startNodeId}))
              => route = Null

(* not-found although stairs lead from start to end *)
C5_Witness ==
    /\ Returned
    /\ preferences.avoidStairs
    /\ route = Null
    /\ HasNode(startNodeId)
    /\ endNodeId \in ReachVia(LAMBDA edge : TRUE, {startNodeId})

(* C6: without avoidStairs no closed edge is traversed: every step of a    *)
(* returned path has a non-closed edge under it, and an end reachable only *)
(* through closed edges is not found.                                      *)
OpenEdge(edge) == ~ClosedEdge(edge)

C7_ValidateExact ==
    valid # Null =>
        (valid[1] = FALSE <=>
            \/ \E i \in 1..Len(TheRoute.path) : AlertAffectsNode(TheRoute.path[i].nodeId)
            \/ \E i \in ConsecutivePairs(TheRoute) :
                  \E edge \in EdgeSet :
                     /\ AlertAffectsEdge(edge)
                     /\ Joins(edge, PathIds(TheRoute)[i], PathIds(TheRoute)[i+1]))

-----------------------------------------------------------------------------
(* Hazard annotation *)

Generated == instructions[1]
Annotated == annotated[1]

(* 1-based index of the node in the route's path, 0 when it is not on it *)
OnPathAt(nodeId) == PathIndex(TheRoute.path, nodeId) + 1

(* alert-path intersections: affected-node entries that lie on the path *)
Intersections ==
    UNION { { <<a, k>> : k \in { j \in 1..Len(alerts[a].affectedNodes) :
                                  OnPathAt(alerts[a].affectedNodes[j]) > 0 } } :
            a \in 1..Len(alerts) }

(* id of the instruction generateInstructions emitted for path node i;     *)
(* 0 when the node produced none                                           *)
InstructionOfNode(i) ==
    LET path == TheRoute.path
        n == Len(path)
        Emits(j) == isSignificantNode(NodeOf(path[j].nodeId),
                        calculateTurn(NodeOf(path[j-1].nodeId), NodeOf(path[j].nodeId),
                                      NodeOf(path[j+1].nodeId)))
    IN  IF n < 2 THEN 0
        ELSE IF i = 1 THEN 1
        ELSE IF i = n THEN Len(Generated)
        ELSE IF Emits(i) THEN 1 + Cardinality({ j \in 2..i : Emits(j) })
        ELSE 0

PositionOf(list, id) == CHOOSE j \in 1..Len(list) : list[j].id = id

(* C8: for every alert with an affected node on the path, a caution stands *)
(* immediately before the instruction generated for that path node.        *)
C8_CautionBeforeNode ==
    annotated # Null =>
        \A ak \in Intersections :
            LET g == InstructionOfNode(OnPathAt(alerts[ak[1]].affectedNodes[ak[2]]))
            IN  g > 0 =>
                  /\ PositionOf(Annotated, g) > 1
                  /\ Annotated[PositionOf(Annotated, g) - 1].action = "caution"

C10_ArgumentUnchanged ==
    [][instructions # Null => instructions' = instructions]_vars

-----------------------------------------------------------------------------
(* C11: findPath returns null when the start id or the end id is not in    *)
(* the map, and when the open set runs empty because no traversable edges  *)
(* lead from start to end; the two cases give the same value, and nothing  *)
(* else gives it.                                                          *)
C11_NotFoundIsNull ==
    Returned =>
        (route = Null <=>
            \/ ~HasNode(startNodeId)
            \/ ~HasNode(endNodeId)
            \/ endNodeId \notin ReachVia(Traversable, {startNodeId}))

(* the open set ran empty after several nodes were expanded *)
C11_Witness ==
    /\ Returned
    /\ route = Null
    /\ HasNode(startNodeId) /\ HasNode(endNodeId)
    /\ openSet = <<>>
    /\ Cardinality(closedSet) >= 2

(* C12: for every consecutive pair (a, b) of a returned path the map holds *)
(* an edge from a to b, or a bidirectional edge from b to a, whose         *)
(* distance is b.distanceFromStart - a.distanceFromStart.                  *)
C12_StepHasEdgeOfDelta ==
    Found =>
        \A i \in ConsecutivePairs(TheRoute) :
            \E edge \in EdgeSet :
                /\ Joins(edge, PathIds(TheRoute)[i], PathIds(TheRoute)[i+1])
                /\ edge.distance = TheRoute.path[i+1].distanceFromStart
                                   - TheRoute.path[i].distanceFromStart

(* a step walked against the direction of its edge, with two edges of      *)
(* different length under it                                               *)
C12_Witness ==
    /\ Found
    /\ \E i \in ConsecutivePairs(TheRoute) :
          \E e1 \in EdgeSet, e2 \in EdgeSet :
             /\ e1.distance # e2.distance
             /\ e1.to = PathIds(TheRoute)[i] /\ e1.from = PathIds(TheRoute)[i+1]
             /\ Joins(e1, PathIds(TheRoute)[i], PathIds(TheRoute)[i+1])
             /\ Joins(e2, PathIds(TheRoute)[i], PathIds(TheRoute)[i+1])

-----------------------------------------------------------------------------
(* Nearest node of a type *)

(* positions in map.nodes of the nodes of the target type *)
Candidates == { i \in 1..Len(MapNodes) : MapNodes[i].type = targetType }

(* findPath's answer for candidate i under the arguments of the call *)
RouteTo(i) == findPath(edges, alerts, startNodeId, MapNodes[i].id, preferences)

(* C13: findRouteToNearest returns null when no node has the target type   *)
(* or findPath reaches none of them; otherwise the Route ends at a node of *)
(* the target type, its totalDistance is at most that of findPath's route  *)
(* to every other candidate, and among equal totals it is the route to the *)
(* earliest candidate of map.nodes.                                        *)
C13_NearestIsClosest ==
    pc = "nearest" =>
        /\ nearest = Null <=> \A i \in Candidates : RouteTo(i) = Null
        /\ nearest # Null =>
              \E i \in Candidates :
                 /\ nearest = RouteTo(i)
                 /\ nearest[1].endNode = MapNodes[i].id
                 /\ \A j \in Candidates :
                       RouteTo(j) # Null =>
                          /\ nearest[1].totalDistance <= RouteTo(j)[1].totalDistance
                          /\ nearest[1].totalDistance = RouteTo(j)[1].totalDistance
                                => i <= j

(* two candidates at the same distance; the earlier one was returned *)
C13_Witness ==
    /\ pc = "nearest"
    /\ nearest # Null
    /\ \E i \in Candidates, j \in Candidates :
          /\ i < j
          /\ nearest = RouteTo(i)
          /\ RouteTo(j) # Null
          /\ RouteTo(j)[1].totalDistance = nearest[1].totalDistance
          /\ nearest[1].totalDistance > 0

-----------------------------------------------------------------------------
(* Alternative routes *)

(* findPath's answer under the i-th fixed preference profile *)
Variant(i) == findPath(edges, alerts, startNodeId, endNodeId, preferenceVariants[i])

(* the answers of the three profiles, in the order they are tried *)
Variants == << Variant(1), Variant(2), Variant(3) >>

(* the profiles that found a route whose node-id sequence no earlier       *)
(* profile had found                                                       *)
FirstFinders(v) ==
    { i \in 1..Len(v) :
        /\ v[i] # Null
        /\ \A k \in 1..(i-1) : v[k] # Null => PathIds(v[k][1]) # PathIds(v[i][1]) }

(* C14: findAlternativeRoutes returns at most min(count, 3) Routes, in the *)
(* order their profiles were tried, with pairwise different node-id        *)
(* sequences; a route is left out only if an earlier profile found the     *)
(* same node-id sequence or count routes had already been collected.       *)
C14_AlternativesDistinct ==
    pc = "alternatives" =>
        LET v == Variants
            first == FirstFinders(v)
        IN  /\ Len(alternatives) <= Min({count, 3})
            /\ \A j \in 1..Len(alternatives) :
                  \E i \in first :
                     /\ alternatives[j] = v[i][1]
                     /\ Cardinality({ k \in first : k < i }) = j - 1
            /\ \A j \in 1..Len(alternatives), k \in 1..Len(alternatives) :
                  j # k => PathIds(alternatives[j]) # PathIds(alternatives[k])
            /\ Len(alternatives) = Min({count, Cardinality(first)})

(* two profiles found different paths, a third repeated one of them, and   *)
(* count cut the list short                                                *)
C14_Witness ==
    /\ pc = "alternatives"
    /\ Len(alternatives) = 1
    /\ count = 1
    /\ Cardinality(FirstFinders(Variants)) = 2
    /\ \A i \in 1..Len(preferenceVariants) : Variant(i) # Null

-----------------------------------------------------------------------------
(* C15: simplifyInstructions is idempotent: a second pass returns a list   *)
(* of the same length with the same action, distance, description and      *)
(* spokenText at every position; after one pass no two adjacent            *)
(* instructions both have action go_straight or walk_forward.              *)
C15_SimplifyIdempotent ==
    /\ simplified # Null =>
          \A i \in 1..(Len(simplified[1]) - 1) :
              ~(IsStraight(simplified[1][i].action)
                /\ IsStraight(simplified[1][i+1].action))
    /\ resimplified # Null =>
          /\ Len(resimplified[1]) = Len(simplified[1])
          /\ \A i \in 1..Len(simplified[1]) :
                /\ resimplified[1][i].action = simplified[1][i].action
                /\ resimplified[1][i].distance = simplified[1][i].distance
                /\ resimplified[1][i].description = simplified[1][i].description
                /\ resimplified[1][i].spokenText = simplified[1][i].spokenText

(* a go_straight and a walk_forward were merged in front of a turn *)
C15_Witness ==
    /\ resimplified # Null
    /\ Len(given) = 3
    /\ Len(simplified[1]) = 2
    /\ given[1].action = "go_straight"
    /\ given[2].action = "walk_forward"
    /\ simplified[1][1].description # given[1].description

-----------------------------------------------------------------------------
(* the list generateInstructions returned, before any later call touched it *)
FreshlyGenerated == instructions # Null /\ annotated = Null

(* C16: for a route of at least two path nodes, all in the map, the list   *)
(* generateInstructions returns starts with a start instruction, ends with *)
(* an arrive instruction of priority important, holds no other start or    *)
(* arrive, and carries the step numbers 1..N in list order.                *)
C16_StartArriveNumbered ==
    (FreshlyGenerated /\ Len(TheRoute.path) >= 2
        /\ \A i \in 1..Len(TheRoute.path) : HasNode(TheRoute.path[i].nodeId)) =>
        LET n == Len(Generated)
        IN  /\ n >= 2
            /\ Generated[1].action = "start"
            /\ Generated[n].action = "arrive"
            /\ Generated[n].priority = "important"
            /\ \A i \in 2..(n - 1) : Generated[i].action \notin {"start", "arrive"}
            /\ \A i \in 1..n : Generated[i].stepNumber = i

(* two interior nodes produced an instruction each *)
C16_Witness ==
    /\ FreshlyGenerated
    /\ Len(TheRoute.path) = 4
    /\ Len(Generated) = 4

(* C17: generateInstructions returns the empty list for a route whose path *)
(* has fewer than two nodes, such as the single-node route of total        *)
(* distance 0 that findPath returns for start = end.                       *)
C17_ShortRouteNoInstructions ==
    (FreshlyGenerated /\ Len(TheRoute.path) < 2) => Generated = <<>>

(* the instructions of a route from a node to itself *)
C17_Witness ==
    /\ FreshlyGenerated
    /\ startNodeId = endNodeId
    /\ Len(TheRoute.path) = 1
    /\ TheRoute.totalDistance = 0
    /\ Generated = <<>>

-----------------------------------------------------------------------------
(* t is meters / 1.2 rounded to the nearest whole second, halves upward:   *)
(* t - 1/2 <= meters / 1.2 < t + 1/2                                       *)
IsRoundedTime(t, meters) ==
    /\ 12 * t - 6 <= 10 * meters
    /\ 10 * meters < 12 * t + 6

(* C18: a returned Route's estimatedTime is round(totalDistance / 1.2) and *)
(* every path node's estimatedTimeFromStart is round(distanceFromStart /   *)
(* 1.2); 20 meters give 17 seconds.                                        *)
C18_TimeIsRoundedDistance ==
    Found =>
        /\ IsRoundedTime(TheRoute.estimatedTime, TheRoute.totalDistance)
        /\ \A i \in 1..Len(TheRoute.path) :
              IsRoundedTime(TheRoute.path[i].estimatedTimeFromStart,
                            TheRoute.path[i].distanceFromStart)
        /\ EstimatedTime(20) = 17

(* 3 m walk in 2.5 s, rounded up to 3, on the way to a farther node *)
C18_Witness ==
    /\ Found
    /\ Len(TheRoute.path) >= 3
    /\ TheRoute.path[2].distanceFromStart = 3
    /\ TheRoute.path[2].estimatedTimeFromStart = 3
    /\ TheRoute.estimatedTime > 3

-----------------------------------------------------------------------------
(* C19: findPath, findRouteToNearest, findAlternativeRoutes and            *)
(* validateRoute leave the map's edges and alerts unchanged (its nodes are *)
(* fixed), and keep no state between calls: whatever was called before,    *)
(* each returns what its arguments and the snapshot determine.             *)
C19_NoStateBetweenCalls ==
    [][ /\ edges' = edges
        /\ alerts' = alerts
        /\ (pc # "returned" /\ pc' = "returned") =>
              route' = findPath(edges, alerts, startNodeId', endNodeId', preferences')
        /\ (pc # "nearest" /\ pc' = "nearest") =>
              nearest' = findRouteToNearest(edges, alerts, startNodeId', targetType',
                                            preferences')
        /\ (pc # "alternatives" /\ pc' = "alternatives") =>
              alternatives' = findAlternativeRoutes(edges, alerts, startNodeId',
                                                    endNodeId', count')
        /\ (valid = Null /\ valid' # Null) =>
              valid'[1] = validateRoute(edges, alerts, route[1]) ]_vars

(* a second findPath call returned a route after the first one had left    *)
(* its search behind                                                       *)
C19_Witness ==
    /\ earlier
    /\ pc = "returned"
    /\ route # Null
    /\ Len(TheRoute.path) >= 2
    /\ closedSet # {}
    /\ valid # Null

-----------------------------------------------------------------------------
(* The camera stream (CameraStream.tsx): the 100 ms timer, the toBlob and  *)
(* FileReader callbacks, the WebSocket handlers and the server's answers   *)
(* run one at a time on the event loop, in any order.                      *)

InitCamera ==
    /\ edges = <<>>
    /\ alerts = <<>>
    /\ CallerIdle
    /\ SimplifyIdle
    /\ CameraIdle
    /\ LaterIdle

(* startStreaming (lines 132-155): connect() opens a socket unless one is open *)
StartStreaming ==
    /\ ~isStreaming
    /\ isStreaming' = TRUE
    /\ readyState' = IF readyState = "open" THEN "open" ELSE "connecting"
    /\ UNCHANGED <<isConnected, awaitingResponse, encoding, reading, unanswered, incoming>>
    /\ UNCHANGED <<routingVars, simplifyVars, laterVars>>

(* ws.onopen (lines 66-69) *)
OnOpen ==
    /\ readyState = "connecting"
    /\ readyState' = "open"
    /\ isConnected' = TRUE
    /\ UNCHANGED <<isStreaming, awaitingResponse, encoding, reading, unanswered, incoming>>
    /\ UNCHANGED <<routingVars, simplifyVars, laterVars>>

(* a timer tick that gets past the two early returns of trySendFrame       *)
(* (lines 192-224): the frame is drawn and handed to canvas.toBlob         *)
TrySendFrame ==
    /\ isStreaming /\ isConnected
    /\ ~awaitingResponse
    /\ readyState = "open"
    /\ encoding + reading + unanswered + incoming < MaxPending
    /\ encoding' = encoding + 1
    /\ UNCHANGED <<readyState, isStreaming, isConnected, awaitingResponse, reading,
                   unanswered, incoming>>
    /\ UNCHANGED <<routingVars, simplifyVars, laterVars>>

(* the toBlob callback (lines 209-221): starts the FileReader if there is  *)
(* a blob and the socket is open                                           *)
BlobReady(hasBlob) ==
    /\ encoding > 0
    /\ encoding' = encoding - 1
    /\ reading' = IF hasBlob /\ readyState = "open" THEN reading + 1 ELSE reading
    /\ UNCHANGED <<readyState, isStreaming, isConnected, awaitingResponse,
                   unanswered, incoming>>
    /\ UNCHANGED <<routingVars, simplifyVars, laterVars>>

(* reader.onload (lines 213-218): marks the response as awaited and sends; *)
(* a socket that is no longer open takes no frame                          *)
ReaderLoad ==
    /\ reading > 0
    /\ reading' = reading - 1
    /\ awaitingResponse' = TRUE
    /\ unanswered' = IF readyState = "open" THEN unanswered + 1 ELSE unanswered
    /\ UNCHANGED <<readyState, isStreaming, isConnected, encoding, incoming>>
    /\ UNCHANGED <<routingVars, simplifyVars, laterVars>>

(* the server answers the oldest frame it holds *)
ServerResponds ==
    /\ readyState = "open"
    /\ unanswered > 0
    /\ unanswered' = unanswered - 1
    /\ incoming' = incoming + 1
    /\ UNCHANGED <<readyState, isStreaming, isConnected, awaitingResponse,
                   encoding, reading>>
    /\ UNCHANGED <<routingVars, simplifyVars, laterVars>>

(* ws.onmessage (lines 71-115): an error or a result releases the gate *)
OnMessage ==
    /\ readyState = "open"
    /\ incoming > 0
    /\ incoming' = incoming - 1
    /\ awaitingResponse' = FALSE
    /\ UNCHANGED <<readyState, isStreaming, isConnected, encoding, reading, unanswered>>
    /\ UNCHANGED <<routingVars, simplifyVars, laterVars>>

(* ws.onerror / ws.onclose (lines 117-126); what was on the wire is lost *)
OnClose ==
    /\ readyState \in {"connecting", "open"}
    /\ readyState' = "closed"
    /\ isConnected' = FALSE
    /\ awaitingResponse' = FALSE
    /\ unanswered' = 0
    /\ incoming' = 0
    /\ UNCHANGED <<isStreaming, encoding, reading>>
    /\ UNCHANGED <<routingVars, simplifyVars, laterVars>>

(* stopStreaming (lines 158-175) *)
StopStreaming ==
    /\ isStreaming
    /\ isStreaming' = FALSE
    /\ readyState' = IF readyState = "none" THEN "none" ELSE "closed"
    /\ isConnected' = FALSE
    /\ awaitingResponse' = FALSE
    /\ unanswered' = 0
    /\ incoming' = 0
    /\ UNCHANGED <<encoding, reading>>
    /\ UNCHANGED <<routingVars, simplifyVars, laterVars>>

NextCamera ==
    \/ StartStreaming
    \/ OnOpen
    \/ TrySendFrame
    \/ \E hasBlob \in BOOLEAN : BlobReady(hasBlob)
    \/ ReaderLoad
    \/ ServerResponds
    \/ OnMessage
    \/ OnClose
    \/ StopStreaming

SpecCamera == InitCamera /\ [][NextCamera]_vars

(* C20: at most one sent frame is awaiting the server's response at any    *)
(* time, in every interleaving of the send timer, the encoding callbacks   *)
(* and the incoming server messages.                                       *)
C20_OneFrameAwaitingResponse ==
    unanswered + incoming <= 1

-----------------------------------------------------------------------------
(* the map with every closure lifted: no alert, no temporary closure, and  *)
(* every edge accessible                                                   *)
OpenedEdges ==
    [i \in 1..Len(edges) |->
        [edges[i] EXCEPT !.temporaryClosure = FALSE, !.accessible = TRUE]]

-----------------------------------------------------------------------------
(* the predecessor chain from n, as the nodes it visits; stops at a node   *)
(* without predecessor or after more links than there are nodes            *)
RECURSIVE Chain(_, _, _)
Chain(cf, n, fuel) ==
    IF fuel = 0 \/ ~MapHas(cf, n) THEN <<n>>
    ELSE <<n>> \o Chain(cf, MapGet(cf, n), fuel - 1)

NoRepeats(seq) == \A i \in 1..Len(seq), j \in 1..Len(seq) : i # j => seq[i] # seq[j]

(* C22: findPath terminates: every iteration that does not return moves    *)
(* one node, not closed before, from the open set to the closed set, so    *)
(* there are at most as many iterations as nodes; the predecessor chain    *)
(* from end visits no node twice and ends at start, and the returned path  *)
(* holds no node twice.                                                    *)
C22_EachNodeClosedOnce ==
    [][ pc = "searching" =>
          \/ /\ pc' = "searching"
             /\ \E n \in NodeIds \ closedSet :
                   /\ OpenHas(openSet, n)
                   /\ ~OpenHas(openSet', n)
                   /\ closedSet' = closedSet \cup {n}
          \/ /\ pc' = "returned"
             /\ route' # Null =>
                   LET chain == Chain(cameFrom', endNodeId, Cardinality(NodeIds))
                   IN  /\ NoRepeats(chain)
                       /\ chain[Len(chain)] = startNodeId
                       /\ NoRepeats(PathIds(route'[1])) ]_vars

(* a route found over a zero-distance edge on a map with a cycle *)
C22_Witness ==
    /\ Found
    /\ Len(TheRoute.path) >= 3
    /\ \E i \in ConsecutivePairs(TheRoute) :
          TheRoute.path[i+1].distanceFromStart = TheRoute.path[i].distanceFromStart
    /\ \E edge \in EdgeSet :
          Joins(edge, endNodeId, startNodeId) \/ Joins(edge, startNodeId, endNodeId)

-----------------------------------------------------------------------------
(* position of node n in the open set's order of entry, 0 when absent *)
OpenPosition(open, n) ==
    IF OpenHas(open, n) THEN CHOOSE i \in 1..Len(open) : open[i].nodeId = n ELSE 0

(* the node the iteration from this state to the next one selected *)
Selected(closedAfter, returnedAfter) ==
    IF returnedAfter THEN endNodeId
    ELSE CHOOSE n \in closedAfter \ closedSet : TRUE

(* C23: every iteration selects a node of the open set whose f = g +       *)
(* heuristic is minimal, among equal minimal f the one that entered the    *)
(* open set first; nodes that stay in the open set keep their order, also  *)
(* when their g was improved, and new nodes enter behind them.             *)
C23_ExpansionOrder ==
    [][ (pc = "searching" /\ openSet # <<>>) =>
          LET n == Selected(closedSet', pc' = "returned")
              at == OpenPosition(openSet, n)
          IN  /\ at > 0
              /\ \A i \in 1..Len(openSet) :
                    /\ openSet[i].fScore = openSet[i].gScore
                          + CostUnit * heuristic(NodeOf(openSet[i].nodeId), NodeOf(endNodeId))
                    /\ openSet[at].fScore <= openSet[i].fScore
                    /\ openSet[i].fScore = openSet[at].fScore => at <= i
              /\ pc' = "searching" =>
                    \A i \in 1..Len(openSet'), j \in 1..Len(openSet') :
                       (i < j /\ OpenHas(openSet, openSet'[j].nodeId)) =>
                          /\ OpenHas(openSet, openSet'[i].nodeId)
                          /\ OpenPosition(openSet, openSet'[i].nodeId)
                                < OpenPosition(openSet, openSet'[j].nodeId) ]_vars

(* a node that entered the open set when start was expanded has since got *)
(* a cheaper predecessor and still stands in front of a node that entered  *)
(* later                                                                   *)
C23_Witness ==
    /\ pc = "searching"
    /\ \E i \in 1..Len(openSet), j \in 1..Len(openSet) :
          /\ i < j
          /\ openSet[i].parent # startNodeId
          /\ openSet[j].parent = openSet[i].parent
          /\ \E edge \in EdgeSet :
                Traversable(edge) /\ Joins(edge, startNodeId, openSet[i].nodeId)

-----------------------------------------------------------------------------
(* Cautions per alert *)

IntersectingAlerts ==
    { a \in 1..Len(alerts) :
         \E k \in 1..Len(alerts[a].affectedNodes) :
            OnPathAt(alerts[a].affectedNodes[k]) > 0 }

CautionPriority(alert) ==
    IF alert.severity = "critical" THEN "critical" ELSE "important"

CautionsOf(list, priority) ==
    { j \in 1..Len(list) :
         list[j].action = "caution" /\ list[j].priority = priority }

(* C24: every alert whose affected nodes meet the path contributes exactly *)
(* one caution to the list addHazardWarnings returns, however many of its  *)
(* affected nodes lie on the path; alerts on the same node each contribute *)
(* their own; the caution is critical for a critical alert and important   *)
(* for any other.                                                          *)
C24_OneCautionPerAlert ==
    annotated # Null =>
        \A priority \in {"normal", "important", "critical"} :
            Cardinality(CautionsOf(Annotated, priority))
              = Cardinality({ a \in IntersectingAlerts :
                                 CautionPriority(alerts[a]) = priority })

-----------------------------------------------------------------------------
(* calculateTurn on its own: the corner at a node, entered and left along  *)
(* one of sixteen headings (or over a segment of length zero).             *)

(* headings as <<dx, dy, bearing>>, the bearing calculateAngle returns for *)
(* the offset in hundredths of a degree: atan2(dx, dy), 0 = north,         *)
(* clockwise, in [0, 360)                                                  *)
Headings ==
    { <<0, 0, 0>>,
      <<0, 1, 0>>,       <<1, 2, 2657>>,    <<1, 1, 4500>>,    <<2, 1, 6343>>,
      <<1, 0, 9000>>,    <<2, -1, 11657>>,  <<1, -1, 13500>>,  <<1, -2, 15343>>,
      <<0, -1, 18000>>,  <<-1, -2, 20657>>, <<-1, -1, 22500>>, <<-2, -1, 24343>>,
      <<-1, 0, 27000>>,  <<-2, 1, 29657>>,  <<-1, 1, 31500>>,  <<-1, 2, 33343>> }

calculateAngle(from, to) ==
    LET h == CHOOSE h \in Headings : h[1] = to.x - from.x /\ h[2] = to.y - from.y
    IN  h[3]

(* positions of the node the corner is at, and lengths of the walk to it *)
CornerPositions == { [x |-> 0, y |-> 0], [x |-> 4, y |-> -7] }
CornerDistances == {1, 3, 6, 12, 20}
CornerLandmarks == {"", "the intersection"}

Corners ==
    { [prev |-> [x |-> at.x - in[1], y |-> at.y - in[2]],
       current |-> at,
       next |-> [x |-> at.x + out[1], y |-> at.y + out[2]],
       distance |-> d, landmark |-> l] :
      at \in CornerPositions, in \in Headings, out \in Headings,
      d \in CornerDistances, l \in CornerLandmarks }

(* action.replace(/_/g, ' ') on the values of InstructionAction *)
SpacedWords(action) ==
    CASE action = "start" -> "start"
      [] action = "walk_forward" -> "walk forward"
      [] action = "turn_left" -> "turn left"
      [] action = "turn_right" -> "turn right"
      [] action = "turn_around" -> "turn around"
      [] action = "slight_left" -> "slight left"
      [] action = "slight_right" -> "slight right"
      [] action = "go_straight" -> "go straight"
      [] action = "take_elevator" -> "take elevator"
      [] action = "take_stairs_up" -> "take stairs up"
      [] action = "take_stairs_down" -> "take stairs down"
      [] action = "enter_door" -> "enter door"
      [] action = "exit_door" -> "exit door"
      [] action = "arrive" -> "arrive"
      [] action = "caution" -> "caution"

generateTurnSpoken(action, distance, landmark) ==
    LET distancePhrase == formatDistance(distance)
        direction ==
            CASE action = "turn_left" -> "turn left"
              [] action = "turn_right" -> "turn right"
              [] action = "slight_left" -> "bear slightly left"
              [] action = "slight_right" -> "bear slightly right"
              [] action \in {"go_straight", "walk_forward"} -> "continue straight"
              [] action = "turn_around" -> "turn around"
              [] OTHER -> SpacedWords(action)
    IN  IF landmark # ""
        THEN "Walk " \o distancePhrase \o ", then " \o direction \o " at " \o landmark \o "."
        ELSE "Walk " \o distancePhrase \o ", then " \o direction \o "."

InitTurn ==
    /\ edges = <<>>
    /\ alerts = <<>>
    /\ CallerIdle
    /\ SimplifyIdle
    /\ CameraIdle
    /\ WalkIdle
    /\ SpeechIdle
    /\ corner \in { Some(c) : c \in Corners }
    /\ turned = Null

(* the turn at the corner and the sentence spoken for it (lines 256-260,   *)
(* 313)                                                                    *)
CalculateTurn ==
    /\ corner # Null
    /\ turned = Null
    /\ LET c == corner[1]
           action == calculateTurn(c.prev, c.current, c.next)
       IN  turned' = Some([action |-> action,
                           spokenText |-> generateTurnSpoken(action, c.distance,
                                                             c.landmark)])
    /\ UNCHANGED <<routingVars, simplifyVars, cameraVars, walkVars, speechVars, corner>>

NextTurn == CalculateTurn

SpecTurn == InitTurn /\ [][NextTurn]_vars

-----------------------------------------------------------------------------
(* Turn classification *)

TheCorner == corner[1]

(* outgoing minus incoming bearing as lines 73-75 normalise it, in         *)
(* hundredths of a degree                                                  *)
BearingDifference(c) ==
    LET d == calculateAngle(c.current, c.next) - calculateAngle(c.prev, c.current)
    IN  IF d > 18000 THEN d - 36000
        ELSE IF d < -18000 THEN d + 36000
        ELSE d

Magnitude(d) == IF d < 0 THEN -d ELSE d

Mirror(point) == [x |-> -point.x, y |-> point.y]

SwapLeftRight(action) ==
    CASE action = "turn_left" -> "turn_right"
      [] action = "turn_right" -> "turn_left"
      [] action = "slight_left" -> "slight_right"
      [] action = "slight_right" -> "slight_left"
      [] OTHER -> action

TurnWords(action) ==
    CASE action = "turn_left" -> "turn left"
      [] action = "turn_right" -> "turn right"
      [] action = "slight_left" -> "bear slightly left"
      [] action = "slight_right" -> "bear slightly right"
      [] action = "go_straight" -> "continue straight"
      [] action = "turn_around" -> "turn around"

Sentence(distancePhrase, words, landmark) ==
    "Walk " \o distancePhrase \o ", then " \o words
        \o (IF landmark = "" THEN "" ELSE " at " \o landmark) \o "."

(* C26: with d the outgoing minus the incoming bearing, normalised, the    *)
(* turn is go_straight for |d| < 30, slight_right (d > 0) or slight_left   *)
(* (d < 0) for 30 <= |d| < 60, turn_right or turn_left likewise for        *)
(* 60 <= |d| < 150, and turn_around for |d| >= 150; the mirrored corner    *)
(* gives the same turn with left and right exchanged, spoken with the same *)
(* distance phrase and landmark.                                           *)
C26_TurnClassification ==
    turned # Null =>
        LET c == TheCorner
            d == BearingDifference(c)
            action == turned[1].action
            mirrored == calculateTurn(Mirror(c.prev), Mirror(c.current), Mirror(c.next))
        IN  /\ Magnitude(d) < 100 * TURN_THRESHOLD => action = "go_straight"
            /\ (100 * TURN_THRESHOLD <= Magnitude(d)
                  /\ Magnitude(d) < 100 * SLIGHT_TURN_THRESHOLD) =>
                  /\ d > 0 => action = "slight_right"
                  /\ d < 0 => action = "slight_left"
            /\ (100 * SLIGHT_TURN_THRESHOLD <= Magnitude(d)
                  /\ Magnitude(d) < 100 * AROUND_THRESHOLD) =>
                  /\ d > 0 => action = "turn_right"
                  /\ d < 0 => action = "turn_left"
            /\ Magnitude(d) >= 100 * AROUND_THRESHOLD => action = "turn_around"
            /\ mirrored = SwapLeftRight(action)
            /\ turned[1].spokenText
                  = Sentence(formatDistance(c.distance), TurnWords(action), c.landmark)
            /\ generateTurnSpoken(mirrored, c.distance, c.landmark)
                  = Sentence(formatDistance(c.distance), TurnWords(SwapLeftRight(action)),
                             c.landmark)

(* a slight left turn of 36.87 degrees after a walk long enough to be      *)
(* spoken in meters, at a landmark                                         *)
C26_Witness ==
    /\ turned # Null
    /\ turned[1].action = "slight_left"
    /\ BearingDifference(TheCorner) = 2657 - 6343
    /\ TheCorner.distance = 20
    /\ TheCorner.landmark # ""

-----------------------------------------------------------------------------
(* generateInstructions on its own: a Route over a fragment of three       *)
(* storeys, seven nodes along one corridor and a room off it, so that      *)
(* every kind of node can be walked through in a straight line as well as  *)
(* turned at.                                                              *)

WalkNodes ==
    << [id |-> "h1", type |-> "hallway",      x |-> 0, y |-> 0, floor |-> 0, roomNumber |-> ""],
       [id |-> "h2", type |-> "hallway",      x |-> 1, y |-> 0, floor |-> 0, roomNumber |-> ""],
       [id |-> "k",  type |-> "door",         x |-> 2, y |-> 0, floor |-> 0, roomNumber |-> "0802"],
       [id |-> "x",  type |-> "intersection", x |-> 3, y |-> 0, floor |-> 1, roomNumber |-> ""],
       [id |-> "s",  type |-> "stairs",       x |-> 4, y |-> 0, floor |-> 1, roomNumber |-> ""],
       [id |-> "l",  type |-> "elevator",     x |-> 5, y |-> 0, floor |-> 2, roomNumber |-> ""],
       [id |-> "h3", type |-> "hallway",      x |-> 6, y |-> 0, floor |-> 2, roomNumber |-> ""],
       [id |-> "r",  type |-> "room",         x |-> 3, y |-> 3, floor |-> 1, roomNumber |-> "1015"] >>

WalkNodeIds == { WalkNodes[i].id : i \in 1..Len(WalkNodes) }

(* lengths of the edges walked *)
SegmentLengths == {1, 2}

(* the RouteNode buildRoute pushes (lines 262-274) *)
WalkNode(id, total) ==
    LET node == NodeIn(WalkNodes, id)
    IN  [nodeId |-> node.id, type |-> node.type,
         x |-> node.x, y |-> node.y, floor |-> node.floor,
         distanceFromStart |-> total,
         estimatedTimeFromStart |-> EstimatedTime(total)]

(* distance walked to the i-th node over segments of the given lengths *)
RECURSIVE WalkedTo(_, _)
WalkedTo(lengths, i) ==
    IF i <= 1 THEN 0 ELSE WalkedTo(lengths, i - 1) + lengths[i - 1]

WalkPath(ids, lengths) ==
    [i \in 1..Len(ids) |-> WalkNode(ids[i], WalkedTo(lengths, i))]

(* the Route buildRoute returns for such a path (lines 281-289) *)
WalkRoute(path) ==
    [startNode |-> path[1].nodeId,
     endNode |-> path[Len(path)].nodeId,
     totalDistance |-> path[Len(path)].distanceFromStart,
     estimatedTime |-> EstimatedTime(path[Len(path)].distanceFromStart),
     path |-> path]

(* a Route over up to MaxWalk distinct nodes *)
InitWalk ==
    /\ edges = <<>>
    /\ alerts = <<>>
    /\ CallerIdle
    /\ SimplifyIdle
    /\ CameraIdle
    /\ TurnIdle
    /\ SpeechIdle
    /\ \E n \in 1..MaxWalk :
          \E ids \in [1..n -> WalkNodeIds], lengths \in [1..(n - 1) -> SegmentLengths] :
             /\ \A i \in 1..n, j \in 1..n : ids[i] = ids[j] => i = j
             /\ walked = Some(WalkRoute(WalkPath(ids, lengths)))
    /\ directions = Null

GenerateWalk ==
    /\ walked # Null
    /\ directions = Null
    /\ directions' = Some(generateInstructions(walked[1], WalkNodes))
    /\ UNCHANGED <<routingVars, simplifyVars, cameraVars, turnVars, speechVars, walked>>

NextWalk == GenerateWalk

SpecWalk == InitWalk /\ [][NextWalk]_vars

-----------------------------------------------------------------------------
(* Instructions of a walk *)

TheWalk == walked[1].path
Directions == directions[1]
WalkNodeAt(i) == NodeIn(WalkNodes, TheWalk[i].nodeId)

(* the turn classified at interior path node i *)
TurnAt(i) == calculateTurn(WalkNodeAt(i - 1), WalkNodeAt(i), WalkNodeAt(i + 1))

(* interior path nodes the claim gives an instruction of their own *)
Waypoints ==
    { i \in 2..(Len(TheWalk) - 1) :
         \/ WalkNodeAt(i).type \in {"door", "elevator", "stairs", "intersection"}
         \/ TurnAt(i) # "go_straight" }

(* path index of the waypoint before path node i, 1 when there is none *)
WaypointBefore(i) ==
    IF \E j \in Waypoints : j < i
    THEN CHOOSE j \in Waypoints : j < i /\ \A m \in Waypoints : m < i => m <= j
    ELSE 1

(* position in the list of the instruction of waypoint i *)
DirectionOf(i) == 1 + Cardinality({ j \in Waypoints : j <= i })

Collinear(i) ==
    LET u == <<WalkNodeAt(i).x - WalkNodeAt(i-1).x, WalkNodeAt(i).y - WalkNodeAt(i-1).y>>
        v == <<WalkNodeAt(i+1).x - WalkNodeAt(i).x, WalkNodeAt(i+1).y - WalkNodeAt(i).y>>
    IN  u[1] * v[2] - u[2] * v[1] = 0 /\ u[1] * v[1] + u[2] * v[2] > 0

(* C25: an interior path node produces an instruction of its own exactly   *)
(* when it is a door, elevator, stairs or intersection or the turn at it   *)
(* is not go_straight; the segment into any other interior node is added   *)
(* to the distance of the next instruction emitted, so the list has 2 plus *)
(* the number of such nodes entries; three collinear hallway nodes give    *)
(* start and arrive only.                                                  *)
C25_WaypointsOnly ==
    (directions # Null /\ Len(TheWalk) >= 2) =>
        LET n == Len(TheWalk)
        IN  /\ Len(Directions) = 2 + Cardinality(Waypoints)
            /\ Directions[1].action = "start"
            /\ Directions[Len(Directions)].action = "arrive"
            /\ \A i \in Waypoints :
                  /\ DirectionOf(i) < Len(Directions)
                  /\ Directions[DirectionOf(i)].action \notin {"start", "arrive"}
                  /\ Directions[DirectionOf(i)].distance
                        = Some(TheWalk[i].distanceFromStart
                               - TheWalk[WaypointBefore(i)].distanceFromStart)
            /\ Directions[Len(Directions)].distance
                  = Some(TheWalk[n].distanceFromStart
                         - TheWalk[WaypointBefore(n)].distanceFromStart)
            /\ (/\ n = 3
                 /\ \A i \in 1..3 : WalkNodeAt(i).type = "hallway"
                 /\ Collinear(2)) =>
                   Directions[1].action = "start"
                   /\ Directions[2].action = "arrive"
                   /\ Len(Directions) = 2

(* a straight hallway node is passed on the way to a corner: the turn's    *)
(* instruction carries both segments                                       *)
C25_Witness ==
    /\ directions # Null
    /\ Len(TheWalk) = 4
    /\ WalkNodeAt(2).type = "hallway" /\ TurnAt(2) = "go_straight"
    /\ WalkNodeAt(3).type = "hallway" /\ TurnAt(3) = "turn_around"
    /\ Len(Directions) = 3
    /\ Directions[2].distance = Some(TheWalk[3].distanceFromStart)
    /\ TheWalk[2].distanceFromStart = 2

(* C27: at an interior path node the type decides the instruction before   *)
(* the turn does: an elevator gives take_elevator at priority important; a *)
(* stairs node gives take_stairs_up when the next path node's floor is     *)
(* greater than its own and take_stairs_down when it is lower, at priority *)
(* important; a door gives enter_door with the door's room number as       *)
(* landmark.                                                               *)
C27_TypeBeforeTurn ==
    (directions # Null /\ Len(TheWalk) >= 2) =>
        \A i \in 2..(Len(TheWalk) - 1) :
            LET node == WalkNodeAt(i)
                next == WalkNodeAt(i + 1)
                at == DirectionOf(i)
            IN  /\ node.type = "elevator" =>
                      /\ at <= Len(Directions)
                      /\ Directions[at].action = "take_elevator"
                      /\ Directions[at].priority = "important"
                /\ node.type = "stairs" =>
                      /\ at <= Len(Directions)
                      /\ next.floor > node.floor => Directions[at].action = "take_stairs_up"
                      /\ next.floor < node.floor => Directions[at].action = "take_stairs_down"
                      /\ Directions[at].priority = "important"
                /\ node.type = "door" =>
                      /\ at <= Len(Directions)
                      /\ Directions[at].action = "enter_door"
                      /\ Directions[at].landmark = node.roomNumber

(* the walk turns at a door and then goes straight on over the stairs to  *)
(* a higher floor                                                          *)
C27_Witness ==
    /\ directions # Null
    /\ Len(TheWalk) = 4
    /\ WalkNodeAt(2).type = "door" /\ TurnAt(2) # "go_straight"
    /\ WalkNodeAt(3).type = "stairs" /\ TurnAt(3) = "go_straight"
    /\ WalkNodeAt(4).floor > WalkNodeAt(3).floor
    /\ Directions[2].landmark = "0802"
    /\ Directions[3].action = "take_stairs_up"

RECURSIVE DistanceSum(_, _)
DistanceSum(list, i) ==
    IF i > Len(list) THEN 0 ELSE OrZero(list[i].distance) + DistanceSum(list, i + 1)

(* C29: for a route of at least two path nodes, all in the map, the        *)
(* distance fields of the instructions generateInstructions returns add up *)
(* to route.totalDistance.                                                 *)
C29_DistancesAddUp ==
    (/\ directions # Null
     /\ Len(TheWalk) >= 2
     /\ \A i \in 1..Len(TheWalk) : HasNodeIn(WalkNodes, TheWalk[i].nodeId)) =>
        DistanceSum(Directions, 1) = walked[1].totalDistance

(* a walk of three segments of which the arrive instruction covers two    *)
C29_Witness ==
    /\ directions # Null
    /\ Len(TheWalk) = 4
    /\ Waypoints = {2}
    /\ walked[1].totalDistance = 5
    /\ Directions[2].distance = Some(2)
    /\ Directions[3].distance = Some(3)

-----------------------------------------------------------------------------
(* useSpeaker with a serverUrl.  Each speak() call is numbered; its Audio   *)
(* element, blob URL and utterance carry the call's number.  A call is     *)
(* "fetching" while its /announce request is pending, "reading" while      *)
(* response.blob() is pending, "playing" once audio.play() has started,     *)
(* "fallback" once its utterance went to speechSynthesis, "returned" when   *)
(* it returned without sound and "ended" when its audio has ended.         *)

Utterances == 1..MaxUtterances
Issued == { id \in Utterances : phase[id] # "none" }

(* what stopAll (lines 632-644) does to the refs and to the sound; the     *)
(* caller decides isSpeakingRef                                            *)
StopAllRefs ==
    /\ playing' = IF audioRef # 0 THEN playing \ {audioRef} ELSE playing
    /\ audioRef' = 0
    /\ blobUrlRef' = 0
    /\ synth' = <<>>

StopAll ==
    /\ StopAllRefs
    /\ isSpeakingRef' = FALSE
    /\ superseded' = superseded \cup Issued
    /\ UNCHANGED phase
    /\ UNCHANGED <<routingVars, simplifyVars, cameraVars, walkVars, turnVars, queueVars>>

(* speak(text) up to its first await (lines 646-662) *)
Speak ==
    \E id \in Utterances :
        /\ phase[id] = "none"
        /\ \A earlierId \in 1..(id - 1) : phase[earlierId] # "none"
        /\ StopAllRefs
        /\ isSpeakingRef' = TRUE
        /\ phase' = [phase EXCEPT ![id] = "fetching"]
        /\ superseded' = superseded \cup Issued
        /\ UNCHANGED <<routingVars, simplifyVars, cameraVars, walkVars, turnVars, queueVars>>

(* the request is answered with response.ok (lines 664-669) *)
FetchOk(id) ==
    /\ phase[id] = "fetching"
    /\ phase' = [phase EXCEPT ![id] = IF isSpeakingRef THEN "reading" ELSE "returned"]
    /\ UNCHANGED <<isSpeakingRef, audioRef, blobUrlRef, playing, synth, superseded>>
    /\ UNCHANGED <<routingVars, simplifyVars, cameraVars, walkVars, turnVars, queueVars>>

(* the request fails, is aborted by the 12 s timer or is answered without  *)
(* response.ok: the browser speaks the text (lines 693-705)                *)
FetchFails(id) ==
    /\ phase[id] = "fetching"
    /\ phase' = [phase EXCEPT ![id] = "fallback"]
    /\ synth' = Append(synth, id)
    /\ UNCHANGED <<isSpeakingRef, audioRef, blobUrlRef, playing, superseded>>
    /\ UNCHANGED <<routingVars, simplifyVars, cameraVars, walkVars, turnVars, queueVars>>

(* response.blob() resolves (lines 669-688): the Audio is created and      *)
(* played; when play() rejects the catch leads to the browser's voice      *)
BlobRead(id, started) ==
    /\ phase[id] = "reading"
    /\ blobUrlRef' = id
    /\ audioRef' = id
    /\ IF started
       THEN /\ playing' = playing \cup {id}
            /\ phase' = [phase EXCEPT ![id] = "playing"]
            /\ synth' = synth
       ELSE /\ playing' = playing
            /\ phase' = [phase EXCEPT ![id] = "fallback"]
            /\ synth' = Append(synth, id)
    /\ UNCHANGED <<isSpeakingRef, superseded>>
    /\ UNCHANGED <<routingVars, simplifyVars, cameraVars, walkVars, turnVars, queueVars>>

(* audio.onended, and audio.onerror which has the same body (lines 674-685) *)
AudioEnded(id) ==
    /\ id \in playing
    /\ playing' = playing \ {id}
    /\ blobUrlRef' = 0
    /\ audioRef' = 0
    /\ isSpeakingRef' = FALSE
    /\ phase' = [phase EXCEPT ![id] = "ended"]
    /\ UNCHANGED <<synth, superseded>>
    /\ UNCHANGED <<routingVars, simplifyVars, cameraVars, walkVars, turnVars, queueVars>>

(* utterance.onend of the utterance the browser is speaking (lines 701-703) *)
UtteranceEnd ==
    /\ synth # <<>>
    /\ synth' = Tail(synth)
    /\ isSpeakingRef' = FALSE
    /\ UNCHANGED <<phase, audioRef, blobUrlRef, playing, superseded>>
    /\ UNCHANGED <<routingVars, simplifyVars, cameraVars, walkVars, turnVars, queueVars>>

InitSpeaker ==
    /\ edges = <<>>
    /\ alerts = <<>>
    /\ CallerIdle
    /\ SimplifyIdle
    /\ CameraIdle
    /\ WalkIdle
    /\ TurnIdle
    /\ SpeakerIdle
    /\ QueueIdle

NextSpeaker ==
    \/ Speak
    \/ StopAll
    \/ \E id \in Utterances : FetchOk(id)
    \/ \E id \in Utterances : FetchFails(id)
    \/ \E id \in Utterances, started \in BOOLEAN : BlobRead(id, started)
    \/ \E id \in Utterances : AudioEnded(id)
    \/ UtteranceEnd

SpecSpeaker == InitSpeaker /\ [][NextSpeaker]_vars

(* C28: whatever the order of speak(), stopAll() and the completions of    *)
(* pending /announce requests, at most one Audio element is playing, and   *)
(* no utterance starts playing after a later speak() or stopAll() has      *)
(* superseded its request.                                                 *)
C28_OneAudioAtATime ==
    [][ /\ Cardinality(playing') <= 1
        /\ \A id \in playing' \ playing : id \notin superseded ]_vars

-----------------------------------------------------------------------------
(* SpeechQueue and the AudioPlayer it plays through.  An item is its id    *)
(* and priority; a source carries the id of the item it plays.  A          *)
(* processQueue invocation is in loops from the moment it sets             *)
(* isProcessing until it leaves its while loop, with the item it holds and *)
(* the await it stands at: "synthesizing" (client.textToSpeech),           *)
(* "decoding" (decodeAudioData inside playBuffer) or "playing" (the        *)
(* promise playBuffer's onEnd resolves).                                   *)

Priorities == {"normal", "high", "urgent"}

QueueIds(q) == { q[i].id : i \in 1..Len(q) }

(* AudioPlayer.stop (lines 312-322); the stopped source dispatches its     *)
(* ended event later                                                       *)
Stopped(p) ==
    IF p.currentSource # 0 /\ p.isPlaying
    THEN [p EXCEPT !.sounding = @ \ {p.currentSource},
                   !.ended = @ \cup {p.currentSource},
                   !.currentSource = 0,
                   !.isPlaying = FALSE]
    ELSE p

(* the insertion by priority of lines 390-401 *)
Inserted(q, item) ==
    IF item.priority = "urgent" THEN <<item>> \o q
    ELSE IF item.priority = "high"
    THEN IF \A i \in 1..Len(q) : q[i].priority = "urgent"
         THEN Append(q, item)
         ELSE LET firstNonUrgent ==
                      CHOOSE i \in 1..Len(q) :
                          /\ q[i].priority # "urgent"
                          /\ \A j \in 1..(i - 1) : q[j].priority = "urgent"
              IN  SubSeq(q, 1, firstNonUrgent - 1) \o <<item>>
                      \o SubSeq(q, firstNonUrgent, Len(q))
    ELSE Append(q, item)

(* processQueue called with queue q (lines 412-423): a new loop takes the  *)
(* first item unless isProcessing is set or q is empty                     *)
ProcessQueue(q) ==
    IF isProcessing \/ q = <<>>
    THEN /\ speechQueue' = q
         /\ UNCHANGED <<currentItem, isProcessing, loops>>
    ELSE /\ isProcessing' = TRUE
         /\ currentItem' = Head(q).id
         /\ speechQueue' = Tail(q)
         /\ loops' = loops \cup {[item |-> Head(q).id, at |-> "synthesizing"]}

(* add (lines 373-407) *)
Add(priority, interruptCurrent) ==
    /\ added < MaxItems
    /\ added' = added + 1
    /\ LET queueItem == [id |-> added + 1, priority |-> priority]
       IN  IF interruptCurrent /\ currentItem # 0
           THEN /\ player' = Stopped(player)
                /\ removed' = removed \cup QueueIds(speechQueue)
                /\ awaited' = queueItem.id
                /\ ProcessQueue(<<queueItem>>)
           ELSE /\ ProcessQueue(Inserted(speechQueue, queueItem))
                /\ UNCHANGED <<player, removed, awaited>>
    /\ UNCHANGED <<routingVars, simplifyVars, cameraVars, walkVars, turnVars, speakerVars>>

(* clear (lines 453-459) *)
Clear ==
    /\ speechQueue' = <<>>
    /\ player' = Stopped(player)
    /\ currentItem' = 0
    /\ isProcessing' = FALSE
    /\ removed' = removed \cup QueueIds(speechQueue)
                      \cup (IF currentItem # 0 THEN {currentItem} ELSE {})
    /\ awaited' = IF awaited \in QueueIds(speechQueue) \cup {currentItem} THEN 0 ELSE awaited
    /\ UNCHANGED <<loops, added>>
    /\ UNCHANGED <<routingVars, simplifyVars, cameraVars, walkVars, turnVars, speakerVars>>

(* the rest of an iteration and the loop test (lines 447-451) for loop l *)
Continue(l) ==
    IF speechQueue # <<>>
    THEN /\ currentItem' = Head(speechQueue).id
         /\ speechQueue' = Tail(speechQueue)
         /\ loops' = (loops \ {l})
                        \cup {[item |-> Head(speechQueue).id, at |-> "synthesizing"]}
         /\ UNCHANGED isProcessing
    ELSE /\ currentItem' = 0
         /\ isProcessing' = FALSE
         /\ loops' = loops \ {l}
         /\ UNCHANGED speechQueue

(* client.textToSpeech settles for loop l (lines 436-442): on success      *)
(* playBuffer initialises, stops the player and starts decoding; a failure *)
(* is logged and the loop goes on                                          *)
TextToSpeechDone(l, ok) ==
    /\ l \in loops
    /\ l.at = "synthesizing"
    /\ IF ok
       THEN /\ player' = Stopped(player)
            /\ loops' = (loops \ {l}) \cup {[l EXCEPT !.at = "decoding"]}
            /\ UNCHANGED <<speechQueue, currentItem, isProcessing, awaited>>
       ELSE /\ Continue(l)
            /\ awaited' = IF awaited = l.item THEN 0 ELSE awaited
            /\ UNCHANGED player
    /\ UNCHANGED <<added, removed>>
    /\ UNCHANGED <<routingVars, simplifyVars, cameraVars, walkVars, turnVars, speakerVars>>

(* decodeAudioData resolves for loop l (lines 255-273): the source starts *)
Decoded(l) ==
    /\ l \in loops
    /\ l.at = "decoding"
    /\ player' = [player EXCEPT !.currentSource = l.item,
                                !.onEndCallback = l.item,
                                !.isPlaying = TRUE,
                                !.sounding = @ \cup {l.item}]
    /\ loops' = (loops \ {l}) \cup {[l EXCEPT !.at = "playing"]}
    /\ awaited' = IF awaited = l.item THEN 0 ELSE awaited
    /\ UNCHANGED <<speechQueue, currentItem, isProcessing, added, removed>>
    /\ UNCHANGED <<routingVars, simplifyVars, cameraVars, walkVars, turnVars, speakerVars>>

(* the onended handler of lines 264-269, run with the player left as p: it *)
(* calls the player's onEndCallback, which resolves the promise of the     *)
(* loop that set it                                                        *)
OnEnded(p) ==
    /\ player' = [p EXCEPT !.isPlaying = FALSE]
    /\ IF \E l \in loops : l.item = p.onEndCallback /\ l.at = "playing"
       THEN Continue(CHOOSE l \in loops : l.item = p.onEndCallback /\ l.at = "playing")
       ELSE UNCHANGED <<speechQueue, currentItem, isProcessing, loops>>
    /\ UNCHANGED <<added, removed, awaited>>
    /\ UNCHANGED <<routingVars, simplifyVars, cameraVars, walkVars, turnVars, speakerVars>>

(* a source plays to its end *)
SourceEnds(source) ==
    /\ source \in player.sounding
    /\ OnEnded([player EXCEPT !.sounding = @ \ {source}])

(* the ended event of a source that was stopped *)
StoppedSourceEnded(source) ==
    /\ source \in player.ended
    /\ OnEnded([player EXCEPT !.ended = @ \ {source}])

InitQueue ==
    /\ edges = <<>>
    /\ alerts = <<>>
    /\ CallerIdle
    /\ SimplifyIdle
    /\ CameraIdle
    /\ WalkIdle
    /\ TurnIdle
    /\ SpeakerIdle
    /\ QueueIdle

NextQueue ==
    \/ \E priority \in Priorities, interruptCurrent \in BOOLEAN :
          Add(priority, interruptCurrent)
    \/ Clear
    \/ \E l \in loops, ok \in BOOLEAN : TextToSpeechDone(l, ok)
    \/ \E l \in loops : Decoded(l)
    \/ \E source \in 1..MaxItems : SourceEnds(source)
    \/ \E source \in 1..MaxItems : StoppedSourceEnded(source)

SpecQueue == InitQueue /\ [][NextQueue]_vars

(* C30: whatever the order of add(), clear() and the completions of        *)
(* synthesis and playback, at most one processQueue loop runs and at most  *)
(* one item is being synthesized or played; the item an interrupting add() *)
(* brought is the next one spoken, and no item dropped by clear() or by an *)
(* interrupt is spoken afterwards.                                         *)
C30_OneLoopOneItem ==
    [][ /\ Cardinality(loops') <= 1
        /\ Cardinality(player'.sounding) <= 1
        /\ \A item \in player'.sounding \ player.sounding :
              /\ item \notin removed
              /\ awaited # 0 => item = awaited ]_vars

====
